---- MODULE Spec2Model ----
(***************************************************************************)
(* A model of the template-synchronisation engine of tyranno-sandbox:      *)
(* the dot-tree data model (dot_tree.py), the expression layer             *)
(* (context.py) and the comment-aware line rewriting with its commit       *)
(* path (sync.py).                                                         *)
(*                                                                         *)
(* Strings are modelled structurally.  A key or dotted path is the         *)
(* non-empty sequence of its dot-free atoms (s.split(".")), so that        *)
(* "a.b" is <<"a", "b">> and joining with "." is concatenation.  A line of *)
(* a file is the sequence of its lexical tokens.                           *)
(***************************************************************************)
EXTENDS Integers, Sequences, FiniteSets, TLC

VARIABLES
    \* ---- SyncHelper (sync.py:170-227) ----
    old_lines,        \* SyncHelper._old_lines
    new_lines,        \* SyncHelper._new_lines
    templates,        \* SyncHelper._templates
    template_rewind,  \* SyncHelper._template_rewind
    line_number,      \* SyncHelper._line_number
    hits,             \* SyncHelper._hits
    pattern,          \* SyncHelper._pattern
    hpc,              \* position of SyncHelper.run: "loop", "done", "raised"
    herr              \* the exception that ended SyncHelper.run, or ""

helperVars == <<old_lines, new_lines, templates, template_rewind,
                line_number, hits, pattern, hpc, herr>>

VARIABLES
    \* ---- Syncer (sync.py:230-272) and the files it works on ----
    fs,               \* the file system: path of each existing file -> its text
    backup,           \* Syncer.backup
    targets,          \* the paths context.find_targets() yields, in order
    idx,              \* index (1-based) of the target Syncer.run is at
    wlines,           \* the `lines` argument of _save and _write
    spc,              \* position of Syncer.run / run_on / _save / _write
    pending,          \* the exception in flight inside the try of _write, or ""
    serr,             \* the exception that ended Syncer.run, or ""
    raised_in,        \* the step of run_on in which serr was raised, or ""
    orig,             \* fs as it was when Syncer.run started (history)
    before,           \* fs as it was when the current run_on started (history)
    write_entered     \* whether _write was entered in the current run_on (history)

syncerVars == <<fs, backup, targets, idx, wlines, spc, pending, serr, raised_in,
                orig, before, write_entered>>

VARIABLES
    \* ---- Data.expand_var / Data.replace_vars_in (context.py:31-62) ----
    etree,            \* Data.tree (the _raw of the DotTree)
    etemplate,        \* the `template` argument of replace_vars_in
    eop,              \* the call made: "", "replace_vars_in" or "expand_var"
    eexpr,            \* the token whose expression expand_var was called on
    eresult           \* what the call returned or raised

expandVars == <<etree, etemplate, eop, eexpr, eresult>>

VARIABLES
    \* ---- DotTrees.merge_leaves (dot_tree.py:630-665) ----
    mtrees,           \* the `trees` argument, each tree by its _raw
    mreplace,         \* the `replace` argument
    mop,              \* the call made: "" or "merge_leaves"
    mresult           \* what the call returned or raised

mergeVars == <<mtrees, mreplace, mop, mresult>>

VARIABLES
    \* ---- one DotTree and the calls made on it (dot_tree.py:276-614) ----
    ttree,            \* the _raw of the tree
    tkeys,            \* the `keys` argument of get / access, by its segments
    tdefault,         \* the `default` argument of get
    top,              \* the last call: "", "normalize", "from_dotted", "get", "access"
    tresult,          \* what the last call returned or raised
    tmsg,             \* the message of the exception the last call raised
    tprev,            \* the tree before the last normalize
    tnorm,            \* the number of normalize calls made in a row
    torig             \* the tree as it was built

treeVars == <<ttree, tkeys, tdefault, top, tresult, tmsg, tprev, tnorm, torig>>

VARIABLES
    \* ---- the factories of DotTree (dot_tree.py:342-384) ----
    fin,              \* the argument x: the items of the dict, in order
    fop,              \* the factory called: "", "from_nested", "from_mixed", "from_dotted"
    fresult           \* what the factory returned or raised

factoryVars == <<fin, fop, fresult>>

VARIABLES
    \* ---- the PEP 440 functions (james.py:403-407, cicd/james.py:116-124) ----
    vin,              \* the `versions` argument: the version strings, in order
    vop,              \* the function called, or ""
    vresult           \* what the function returned or raised

versionVars == <<vin, vop, vresult>>

VARIABLES
    \* ---- _Utils.format_dt / datetime_to_dict (james.py:262-282) ----
    din,              \* the `dt` argument
    dsep,             \* the `sep` argument of format_dt
    dts,              \* the `ts` argument of format_dt
    dop,              \* the method called, or ""
    dresult           \* what the call returned or raised

dtVars == <<din, dsep, dts, dop, dresult>>

VARIABLES
    \* ---- Tokens.inline_regex with an end token (sync.py:39-71) ----
    rprofile,         \* the CommentTokenPair of the pattern
    rline,            \* the line handed to pattern.fullmatch
    rexpr,            \* the expression text the line was written with (history)
    rop,              \* the call made, or ""
    rresult           \* the match: whether it matched, and its group "line"

regexVars == <<rprofile, rline, rexpr, rop, rresult>>

VARIABLES
    \* ---- Data.expand_var with in_key (context.py:54-62) ----
    ktree,            \* Data.tree (the _raw of the DotTree)
    kkey,             \* the `in_key` argument, split at "."; <<>> is ""
    kexpr,            \* the `expression` argument, stripped
    kop,              \* the call made, or ""
    kresult           \* what the call returned or raised

inkeyVars == <<ktree, kkey, kexpr, kop, kresult>>

VARIABLES
    \* ---- DeltaBlock.n_lines_differ and Syncer._log (sync.py:127-150, 253-264) ----
    bhits,            \* the `hits` argument of _log: the DeltaBlocks of one file
    bop,              \* the call made, or ""
    bresult           \* the three numbers _log writes: changed, covered, blocks

deltaVars == <<bhits, bop, bresult>>

VARIABLES
    \* ---- DotTree.transform_leaves (dot_tree.py:386-401) ----
    xtree,            \* the _raw of the tree transform_leaves is called on
    xfn,              \* the `fn` argument, by name
    xorig,            \* xtree as it was before the call (history)
    xop,              \* the call made, or ""
    xresult           \* what the call returned (the _raw of the new tree) or raised

transformVars == <<xtree, xfn, xorig, xop, xresult>>

VARIABLES
    \* ---- _JsonUtil.encode / _JsonUtil.decode (_core.py:29-41) ----
    jx,               \* the value handed to JSON.encode
    jtext,            \* what JSON.encode returned: the text, as its tokens
    jy,               \* what JSON.decode returned or raised
    jop               \* the last call made: "", "encode" or "decode"

jsonVars == <<jx, jtext, jy, jop>>

VARIABLES
    \* ---- JobManager and the routes of the server (api/server.py:48-124) ----
    running,          \* manager._running
    results,          \* manager._results: job id -> message
    job_pc,           \* per job id: "" (not issued), "created" (create_task
                      \* returned it), "sent" (the response went out),
                      \* "sleeping" (put awaits the sleep) or "done" (put returned)
    job_message,      \* per job id: the message handed to add_task
    reply             \* the last answer of a route

jobVars == <<running, results, job_pc, job_message, reply>>

\* The variables of the specifications that follow SpecVersions.
finalVars == <<dtVars, regexVars, inkeyVars, deltaVars, transformVars, jsonVars, jobVars>>

\* The variables of the specifications that follow SpecFactory.
laterVars == <<versionVars, finalVars>>

\* The variables of the specifications that follow SpecMerge.
restVars == <<treeVars, factoryVars, laterVars>>

vars == <<helperVars, syncerVars, expandVars, mergeVars, restVars>>

---------------------------------------------------------------------------
(* Bounds of the model.                                                    *)

\* The longest file (in lines, before the "" that __post_init__ appends).
MaxLines == 5

\* The longest list of lines handed to Syncer._write on its own.
MaxWrite == 2

\* The most target files of one Syncer.run.
MaxTargets == 2

\* The longest template (in tokens) handed to Data.replace_vars_in on its own.
MaxTemplate == 2

\* The most trees handed to one DotTrees.merge_leaves.
MaxTrees == 2

\* The most calls of DotTree.normalize made in a row on one tree.
MaxNormalize == 2

\* The most segments of the `keys` handed to DotTree.get / DotTree.access.
MaxSegments == 3

\* The most items of the dict handed to a factory of DotTree.
MaxItems == 2

\* The most version strings handed to one PEP 440 function.
MaxVersions == 2

\* The most tokens of the expression text of a marker line with an end token.
MaxExpr == 4

\* The most DeltaBlocks of one file, and the most lines of one DeltaBlock.
MaxHits == 2

MaxBlockLines == 2

\* How deep the lists and dicts handed to JSON.encode are nested.
MaxNesting == 2

\* The most jobs POST /tasks creates.
MaxJobs == 2

---------------------------------------------------------------------------
(* Generic helpers.                                                        *)

Min(a, b) == IF a < b THEN a ELSE b

Max(a, b) == IF a > b THEN a ELSE b

\* Python's seq[i:j] for 0-based i, j (negative indices count from the end).
PySlice(seq, i, j) ==
    LET n  == Len(seq)
        ii == IF i < 0 THEN Max(n + i, 0) ELSE Min(i, n)
        jj == IF j < 0 THEN Max(n + j, 0) ELSE Min(j, n)
    IN  IF ii >= jj THEN <<>> ELSE SubSeq(seq, ii + 1, jj)

\* All sequences over S of length 0..n.
SeqUpTo(S, n) == UNION {[1..k -> S] : k \in 0..n}

---------------------------------------------------------------------------
(* DotTree nodes (dot_tree.py:23-28).  A node is a branch (a dict from     *)
(* keys to nodes) or a leaf; a leaf carries its Python type and its value. *)

NoKeys == [k \in {} |-> {}]

StrLeaf(s) == [t |-> "str", v |-> s, d |-> NoKeys]

IntLeaf(s) == [t |-> "int", v |-> s, d |-> NoKeys]

ListLeaf(s) == [t |-> "list", v |-> s, d |-> NoKeys]

Dict(f) == [t |-> "dict", v |-> "", d |-> f]

\* Python's None.
NoneVal == [t |-> "none", v |-> "", d |-> NoKeys]

\* The key of one atom, and the dict with one entry.
K(a) == <<a>>

One(k, node) == [x \in {k} |-> node]

\* The result of a call: the value it returns, or the exception it raises.
Ok(val) == [err |-> "", val |-> val]

Raise(e) == [err |-> e, val |-> NoneVal]

\* DotTree._access: the walk over keys.split("."), from segment i on.
RECURSIVE AccessFrom(_, _, _)
AccessFrom(x, split, i) ==
    IF i > Len(split) THEN Ok(x)
    ELSE IF x.t # "dict" THEN Raise("TypeError")
    ELSE IF K(split[i]) \notin DOMAIN x.d THEN Raise("KeyError")
    ELSE AccessFrom(x.d[K(split[i])], split, i + 1)

\* DotTree.access(keys) on the tree whose _raw is the branch `raw`.
access(raw, keys) == AccessFrom(Dict(raw), keys, 1)

---------------------------------------------------------------------------
(* Expressions (context.py:26-62).  An expression is the sequence of its   *)
(* dot-separated segments; a segment is a bare identifier or a quoted      *)
(* identifier of the query language.                                       *)

Seg(a) == [q |-> FALSE, name |-> a]

QSeg(a) == [q |-> TRUE, name |-> a]

\* The names that match [A-Za-z_][A-Za-z0-9_-]*+ among the names of the
\* model ("", "0", "1", "~", "data~" and "a b" do not).
Identifiers == {"a", "b", "c", "n", "cd", "x", "tool", "tyranno", "data"}

\* SIMPLE_KEY_REGEX.fullmatch(expression): only bare identifiers.
SIMPLE_KEY_REGEX(expression) ==
    /\ Len(expression) >= 1
    /\ \A i \in 1..Len(expression) :
           ~expression[i].q /\ expression[i].name \in Identifiers

ExprPath(expression) == [i \in 1..Len(expression) |-> expression[i].name]

\* jmespath.compile(expression).search(tree): the value the field path
\* selects, and null (None) when it selects nothing.
RECURSIVE JmesFrom(_, _, _)
JmesFrom(x, path, i) ==
    IF i > Len(path) THEN x
    ELSE IF x.t # "dict" \/ K(path[i]) \notin DOMAIN x.d THEN NoneVal
    ELSE JmesFrom(x.d[K(path[i])], path, i + 1)

jmespath_search(raw, expression) == Ok(JmesFrom(Dict(raw), ExprPath(expression), 1))

\* Data._jmespath_options where the property can be computed and cached.
jmespath_options_cached == Ok(NoKeys)

\* Data._jmespath_options (context.py:38-40): a functools.cached_property of
\* a dataclass declared with slots=True (context.py:31).  An instance of
\* Data has no __dict__ for the property to cache in, so reading it raises
\* TypeError.
jmespath_options == Raise("TypeError")

\* Data.expand_var(expression) with in_key = "" (the only call sync makes).
\* The arguments of search(...), self._jmespath_options among them, are
\* evaluated before the search is made.
expand_var(raw, expression) ==
    IF SIMPLE_KEY_REGEX(expression)
    THEN access(raw, ExprPath(expression))
    ELSE IF jmespath_options.err # "" THEN jmespath_options
    ELSE jmespath_search(raw, expression)

\* expression.startswith(prefix + "."), for prefix "" or "~".
StartsWithDot(expression, prefix) ==
    /\ Len(expression) >= 2
    /\ ~expression[1].q
    /\ expression[1].name = prefix

\* left + expression for strings split at ".": the last segment of left and
\* the first of expression become one segment.
Concat(left, expression) ==
    SubSeq(left, 1, Len(left) - 1)
        \o <<Seg(left[Len(left)].name \o expression[1].name)>>
        \o Tail(expression)

\* Data.expand_var(expression, in_key=in_key), from the stripped expression
\* on; in_key is a sequence of segments, <<>> for "".
expand_var_in_key(raw, expression, in_key) ==
    LET e1 == IF StartsWithDot(expression, "~")
              THEN Concat(<<Seg("tool"), Seg("tyranno"), Seg("data")>>, expression)
              ELSE expression
        e2 == IF in_key # <<>> /\ StartsWithDot(e1, "")
              THEN Concat(in_key, e1)
              ELSE e1
    IN  expand_var(raw, e2)

\* The `${{ expr }}` tokens EXPR_REGEX finds, with the expression of each.
EXPR_REGEX ==
    [tok \in {"${{a.b}}", "${{a.n}}", "${{a.c}}", "${{\"a\".b}}", "${{\"a\".c}}"} |->
        CASE tok = "${{a.b}}" -> <<Seg("a"), Seg("b")>>
          [] tok = "${{a.n}}" -> <<Seg("a"), Seg("n")>>
          [] tok = "${{a.c}}" -> <<Seg("a"), Seg("c")>>
          [] tok = "${{\"a\".b}}" -> <<QSeg("a"), Seg("b")>>
          [] tok = "${{\"a\".c}}" -> <<QSeg("a"), Seg("c")>>]

\* What re.sub does with the value its callback returns: a str is
\* substituted, None is substituted as the empty string, anything else
\* makes re.sub raise TypeError.
SubResult(r) ==
    IF r.err # "" THEN [err |-> r.err, val |-> <<>>]
    ELSE IF r.val.t = "str" THEN [err |-> "", val |-> <<r.val.v>>]
    ELSE IF r.val.t = "none" THEN [err |-> "", val |-> <<>>]
    ELSE [err |-> "TypeError", val |-> <<>>]

\* Data.replace_vars_in(template): EXPR_REGEX.sub over the template, left
\* to right; the first exception ends it.
RECURSIVE ReplaceFrom(_, _, _)
ReplaceFrom(raw, template, i) ==
    IF i > Len(template) THEN [err |-> "", val |-> <<>>]
    ELSE LET here == IF template[i] \in DOMAIN EXPR_REGEX
                     THEN SubResult(expand_var(raw, EXPR_REGEX[template[i]]))
                     ELSE [err |-> "", val |-> <<template[i]>>]
             rest == ReplaceFrom(raw, template, i + 1)
         IN  IF here.err # "" THEN here
             ELSE IF rest.err # "" THEN rest
             ELSE [err |-> "", val |-> here.val \o rest.val]

replace_vars_in(raw, template) == ReplaceFrom(raw, template, 1)

---------------------------------------------------------------------------
(* Marker lines (sync.py:23-112).  A line is the sequence of its tokens;   *)
(* "#" and "//" are comment-start tokens, " " is whitespace and            *)
(* "::tyranno::" is Tokens.tyranno_inline.                                 *)

tyranno_inline == "::tyranno::"

\* get_comment_tokens(): suffix -> CommentTokenPair (a sample of the table).
COMMENTS ==
    [sfx \in {".toml", ".py"} |->
        CASE sfx = ".toml" -> [start |-> "#", end |-> ""]
          [] sfx = ".py"   -> [start |-> "//", end |-> ""]]

\* The index of the first token of `line` at or after i that is not
\* whitespace (Len(line) + 1 when there is none): the `\s*` of the pattern.
RECURSIVE SkipWs(_, _)
SkipWs(line, i) ==
    IF i <= Len(line) /\ line[i] = " " THEN SkipWs(line, i + 1) ELSE i

\* Tokens.inline_regex(comment_start, "") for a single-line comment
\* profile: ^start\s*::tyranno::(?P<line>.*+)$ .  The compiled pattern is
\* kept as its start token and the names of its groups.
inline_regex(comment_start) == [start |-> comment_start, groups |-> {"line"}]

\* pattern.fullmatch(line): the match (truthy) with its named groups, or
\* None (matched = FALSE).
fullmatch(pat, line) ==
    LET j == SkipWs(line, 2)
    IN  IF /\ Len(line) >= 2
           /\ line[1] = pat.start
           /\ j <= Len(line)
           /\ line[j] = tyranno_inline
        THEN [matched |-> TRUE,
              groups |-> [g \in pat.groups |-> SubSeq(line, j + 1, Len(line))]]
        ELSE [matched |-> FALSE, groups |-> [g \in pat.groups |-> <<>>]]

\* m.group(name): IndexError("no such group") for a name the pattern lacks.
group(m, name) ==
    IF name \in DOMAIN m.groups
    THEN [err |-> "", val |-> m.groups[name]]
    ELSE [err |-> "IndexError", val |-> <<>>]

---------------------------------------------------------------------------
(* SyncHelper (sync.py:170-227).                                           *)

\* The tree behind context.data in the sync specifications.
DataTree == One(K("a"), Dict([k \in {K("b"), K("n")} |->
                                  IF k = K("b") THEN StrLeaf("x") ELSE IntLeaf("1")]))

\* SyncHelper._generate_lines(templates): replace_vars_in on each template
\* in order; the first exception ends it.
RECURSIVE GenerateFrom(_, _)
GenerateFrom(tpls, i) ==
    IF i > Len(tpls) THEN [err |-> "", val |-> <<>>]
    ELSE LET here == replace_vars_in(DataTree, tpls[i])
             rest == GenerateFrom(tpls, i + 1)
         IN  IF here.err # "" THEN [err |-> here.err, val |-> <<>>]
             ELSE IF rest.err # "" THEN rest
             ELSE [err |-> "", val |-> <<here.val>> \o rest.val]

\* A generator that yields one line more than it was given templates.
generate_lines_and_one(tpls) ==
    [err |-> "", val |-> tpls \o << <<"GENERATED">> >>]

generate_lines(tpls) == GenerateFrom(tpls, 1)

DeltaBlock(kind, first, tpls, old, new) ==
    [kind |-> kind, first_line_number |-> first, templates |-> tpls,
     old_lines |-> old, new_lines |-> new]

\* bool(hit) of `if hit := self._next_line()`: a DeltaBlock defines __len__
\* as len(self.templates), so a block without templates is falsy.
Truthy(hit) == Len(hit.templates) # 0

\* The state of a SyncHelper.
Helper(ol, nl, tp, rw, ln, hs, pc, er) ==
    [old_lines |-> ol, new_lines |-> nl, templates |-> tp,
     template_rewind |-> rw, line_number |-> ln, hits |-> hs, pc |-> pc, err |-> er]

\* SyncHelper.__post_init__ on a file with the given suffix and lines
\* (path.read_text().splitlines()).
NewHelper(lines) ==
    Helper(lines \o << <<>> >>, <<>>, <<>>, -1, 0, <<>>, "loop", "")

\* One iteration of the loop of SyncHelper.run: _next_line(), the append of
\* a truthy hit, and the increment of _line_number.  `pat` is
\* self._pattern.
RunStep(h, pat) ==
    LET line == h.old_lines[h.line_number + 1]
        m    == fullmatch(pat, line)
        raised(e) == [h EXCEPT !.pc = "raised", !.err = e]
        next(g) == [g EXCEPT !.line_number = @ + 1,
                             !.pc = IF h.line_number + 1 >= Len(h.old_lines)
                                    THEN "done" ELSE "loop"]
    IN  IF h.template_rewind > 0 THEN
            next([h EXCEPT !.template_rewind = @ - 1])
        ELSE IF h.template_rewind # 0 THEN
            LET original == PySlice(h.old_lines,
                                    h.line_number - Len(h.templates), h.line_number)
                new == generate_lines(h.templates)
                hit == DeltaBlock("inline", h.line_number, h.templates, original, new.val)
            IN  IF new.err # "" THEN raised(new.err)
                ELSE next([h EXCEPT !.new_lines = @ \o new.val,
                                    !.templates = <<>>,
                                    !.template_rewind = -1,
                                    !.hits = IF Truthy(hit) THEN Append(@, hit) ELSE @])
        ELSE IF m.matched THEN
            LET c == group(m, "capture")
            IN  IF c.err # "" THEN raised(c.err)
                ELSE next([h EXCEPT !.templates = Append(@, c.val)])
        ELSE IF h.templates # <<>> THEN
            next([h EXCEPT !.template_rewind = Len(h.templates),
                           !.templates = Append(@, line)])
        ELSE
            next([h EXCEPT !.new_lines = Append(@, line)])

\* SyncHelper.run: the loop to its end, or to the first exception.
RECURSIVE RunFrom(_, _)
RunFrom(h, pat) ==
    IF h.pc # "loop" THEN h
    ELSE IF h.line_number >= Len(h.old_lines) THEN [h EXCEPT !.pc = "done"]
    ELSE RunFrom(RunStep(h, pat), pat)

---------------------------------------------------------------------------
(* SyncHelper.run, one loop iteration per step, on every file of up to     *)
(* MaxLines lines over LineAlphabet.                                       *)

MarkerLine1 == <<"#", " ", tyranno_inline, " ", "'1'">>

MarkerLine2 == <<"#", tyranno_inline, " ", "v=", "${{a.b}}">>

LineAlphabet == {MarkerLine1, MarkerLine2, <<"OLD1">>, <<"UNRELATED">>}

HelperState ==
    Helper(old_lines, new_lines, templates, template_rewind, line_number,
           hits, hpc, herr)

SetHelper(h) ==
    /\ old_lines' = h.old_lines
    /\ new_lines' = h.new_lines
    /\ templates' = h.templates
    /\ template_rewind' = h.template_rewind
    /\ line_number' = h.line_number
    /\ hits' = h.hits
    /\ hpc' = h.pc
    /\ herr' = h.err

\* The helper variables hold the helper h (in an initial state).
HelperIs(h) ==
    /\ old_lines = h.old_lines
    /\ new_lines = h.new_lines
    /\ templates = h.templates
    /\ template_rewind = h.template_rewind
    /\ line_number = h.line_number
    /\ hits = h.hits
    /\ hpc = h.pc
    /\ herr = h.err

\* No Syncer is at work.
IdleSyncer ==
    /\ fs = NoKeys
    /\ backup = FALSE
    /\ targets = <<>>
    /\ idx = 1
    /\ wlines = <<>>
    /\ spc = "idle"
    /\ pending = ""
    /\ serr = ""
    /\ raised_in = ""
    /\ orig = NoKeys
    /\ before = NoKeys
    /\ write_entered = FALSE

\* No expression is being evaluated on its own.
IdleExpand ==
    /\ etree = NoKeys
    /\ etemplate = <<>>
    /\ eop = ""
    /\ eexpr = ""
    /\ eresult = [err |-> "", val |-> <<>>]

\* No call is made on a tree of its own.
IdleTree ==
    /\ ttree = NoKeys
    /\ tkeys = <<>>
    /\ tdefault = NoneVal
    /\ top = ""
    /\ tresult = [err |-> "", val |-> NoneVal]
    /\ tmsg = <<>>
    /\ tprev = NoKeys
    /\ tnorm = 0
    /\ torig = NoKeys

\* No factory is called.
IdleFactory ==
    /\ fin = <<>>
    /\ fop = ""
    /\ fresult = [err |-> "", val |-> NoKeys]

IdleVersions ==
    /\ vin = <<>>
    /\ vop = ""
    /\ vresult = [err |-> "", val |-> NoKeys]

IdleDt ==
    /\ din = [zone |-> [key |-> "", tzname |-> <<>>, offset |-> 0],
              day |-> 1, hour |-> 0]
    /\ dsep = "T"
    /\ dts = "microseconds"
    /\ dop = ""
    /\ dresult = [err |-> "", val |-> NoKeys]

IdleRegex ==
    /\ rprofile = [start |-> "", end |-> ""]
    /\ rline = <<>>
    /\ rexpr = <<>>
    /\ rop = ""
    /\ rresult = [matched |-> FALSE, line |-> <<>>]

IdleInKey ==
    /\ ktree = NoKeys
    /\ kkey = <<>>
    /\ kexpr = <<>>
    /\ kop = ""
    /\ kresult = [err |-> "", val |-> NoKeys]

IdleDelta ==
    /\ bhits = <<>>
    /\ bop = ""
    /\ bresult = [changed |-> 0, covered |-> 0, blocks |-> 0]

IdleTransform ==
    /\ xtree = NoKeys
    /\ xfn = ""
    /\ xorig = NoKeys
    /\ xop = ""
    /\ xresult = [err |-> "", val |-> NoKeys]

IdleJson ==
    /\ jx = [t |-> "null", s |-> <<>>, n |-> 0, l |-> <<>>, d |-> <<>>]
    /\ jtext = [err |-> "", val |-> <<>>]
    /\ jy = [err |-> "", val |-> [t |-> "null", s |-> <<>>, n |-> 0, l |-> <<>>, d |-> <<>>]]
    /\ jop = ""

IdleJobs ==
    /\ running = {}
    /\ results = <<>>
    /\ job_pc = <<>>
    /\ job_message = <<>>
    /\ reply = [route |-> "", id |-> 0, code |-> 0, body |-> "", pc |-> "", listed |-> <<>>]

IdleFinal == IdleDt /\ IdleRegex /\ IdleInKey /\ IdleDelta /\ IdleTransform /\ IdleJson /\ IdleJobs

IdleLater == IdleVersions /\ IdleFinal

IdleRest == IdleTree /\ IdleFactory /\ IdleLater

\* No merge is being made.
IdleMerge ==
    /\ mtrees = <<>>
    /\ mreplace = ""
    /\ mop = ""
    /\ mresult = [err |-> "", val |-> NoKeys]

HelperInit ==
    /\ \E sfx \in {".toml", ".py"}, lines \in SeqUpTo(LineAlphabet, MaxLines) :
           /\ pattern = inline_regex(COMMENTS[sfx].start)
           /\ HelperIs(NewHelper(lines))
    /\ IdleSyncer
    /\ IdleExpand
    /\ IdleMerge
    /\ IdleRest

\* One iteration of `for _ in range(len(self._old_lines))`.
NextLine ==
    /\ hpc = "loop"
    /\ SetHelper(RunStep(HelperState, pattern))
    /\ UNCHANGED <<pattern, syncerVars, expandVars, mergeVars, restVars>>

HelperNext == NextLine

SpecHelper == HelperInit /\ [][HelperNext]_vars

---------------------------------------------------------------------------
(* Claims about SyncHelper.run (checked under SpecHelper).                 *)

HelperFinished == hpc \in {"done", "raised"}

\* The lines of the file: _old_lines without the "" __post_init__ appends.
FileLines == SubSeq(old_lines, 1, Len(old_lines) - 1)

IsMarker(line) == fullmatch(pattern, line).matched

\* The template a marker line carries: the capture group of the pattern.
Captured(line) == fullmatch(pattern, line).groups["line"]

\* The file holds exactly one block of marker lines, the k lines after the
\* first p lines, and at least k lines follow the block.
OneBlock(p, k) ==
    /\ p + 2 * k <= Len(FileLines)
    /\ \A i \in 1..Len(FileLines) : IsMarker(FileLines[i]) <=> (p < i /\ i <= p + k)

\* What the claim C1 expects of _new_lines for such a file.
ExpectedLines(p, k) ==
    LET block == SubSeq(old_lines, p + 1, p + k)
        gen   == generate_lines([i \in 1..k |-> Captured(block[i])])
    IN  SubSeq(old_lines, 1, p) \o block \o gen.val
            \o SubSeq(old_lines, p + 2 * k + 1, Len(old_lines))

\* C1: when run has finished on a file with one block of k >= 1 marker lines
\* followed by at least k lines, it finished normally and new_lines is the
\* lines before the block, the k marker lines, the k lines generated from
\* the captured templates, then every line after the k replaced ones.
C1_OneBlockRewritten ==
    HelperFinished =>
        \A p \in 0..Len(FileLines), k \in 1..Len(FileLines) :
            OneBlock(p, k) => hpc = "done" /\ new_lines = ExpectedLines(p, k)

\* C2: when run has finished on a file without a marker line, it finished
\* normally, new_lines is the input line sequence and no hit was recorded.
C2_NoMarkerPassThrough ==
    (HelperFinished /\ \A i \in 1..Len(FileLines) : ~IsMarker(FileLines[i])) =>
        /\ hpc = "done"
        /\ new_lines \in {old_lines, FileLines}
        /\ hits = <<>>

\* C7: when the input ends in a marker block (its last line is a marker
\* line, so no line follows the block), run raises instead of finishing
\* normally.
C7_TrailingBlockRaises ==
    (HelperFinished /\ FileLines # <<>> /\ IsMarker(FileLines[Len(FileLines)])) =>
        hpc = "raised"

---------------------------------------------------------------------------
(* Paths and file texts.  A path is absolute or relative and has parts;    *)
(* a part is the sequence of the pieces of its name, so that the name      *)
(* "a.toml" is <<"a", ".toml">> and its suffix is its last piece.  The     *)
(* text of a file is its sequence of tokens, "\n" being the line break.    *)

Path(abs, parts) == [abs |-> abs, parts |-> parts]

\* path.name, path.parent, path.with_name(name), path.suffix, a / b.
name(path) == path.parts[Len(path.parts)]

parent(path) == Path(path.abs, SubSeq(path.parts, 1, Len(path.parts) - 1))

with_name(path, n) == Path(path.abs, Append(parent(path).parts, n))

suffix(path) == IF Len(name(path)) >= 2 THEN name(path)[Len(name(path))] ELSE ""

Join(a, b) == Path(a.abs, a.parts \o b.parts)

IsPrefix(a, b) == Len(a) <= Len(b) /\ SubSeq(b, 1, Len(a)) = a

\* path.relative_to(base): ValueError unless path is in the subpath of base
\* (never when one is relative and the other absolute).
relative_to(path, base) ==
    IF path.abs = base.abs /\ IsPrefix(base.parts, path.parts)
    THEN [err |-> "", val |-> Path(FALSE, SubSeq(path.parts, Len(base.parts) + 1,
                                                  Len(path.parts)))]
    ELSE [err |-> "ValueError", val |-> path]

\* Context.repo_dir: Path.cwd() (__main__.py:203), so absolute, and the
\* directory relative paths are resolved against.
repo_dir == Path(TRUE, << <<"repo">> >>)

\* The file a path names.
Resolve(path) == IF path.abs THEN path ELSE Join(repo_dir, path)

\* Context.bak_dir: repo_dir / env.tyranno_dir / "sync-bak".
bak_dir == Join(repo_dir, Path(FALSE, << <<".tyranno">>, <<"sync-bak">> >>))

\* Context.bak_path(path).
bak_path(path) ==
    LET rel == relative_to(parent(path), repo_dir)
    IN  IF rel.err # "" THEN rel ELSE [err |-> "", val |-> Join(bak_dir, rel.val)]

\* "\n".join(lines).
RECURSIVE JoinLines(_)
JoinLines(lines) ==
    IF lines = <<>> THEN <<>>
    ELSE IF Len(lines) = 1 THEN lines[1]
    ELSE lines[1] \o <<"\n">> \o JoinLines(Tail(lines))

\* text.splitlines(): the pieces between line breaks; a final line break
\* opens no further line.
RECURSIVE SplitLines(_, _)
SplitLines(text, cur) ==
    IF text = <<>> THEN (IF cur = <<>> THEN <<>> ELSE <<cur>>)
    ELSE IF Head(text) = "\n" THEN <<cur>> \o SplitLines(Tail(text), <<>>)
    ELSE SplitLines(Tail(text), Append(cur, Head(text)))

splitlines(text) == SplitLines(text, <<>>)

\* The directories that exist (nothing in sync.py creates one).
Dirs == {repo_dir, Join(repo_dir, Path(FALSE, << <<"sub">> >>)),
         Join(repo_dir, Path(FALSE, << <<".tyranno">> >>))}

\* shutil.copyfile(src, dst) on the file system f.
copyfile(f, src, dst) ==
    IF Resolve(src) \notin DOMAIN f THEN [err |-> "FileNotFoundError", fs |-> f]
    ELSE IF Resolve(dst) \in Dirs THEN [err |-> "IsADirectoryError", fs |-> f]
    ELSE IF parent(Resolve(dst)) \notin Dirs THEN [err |-> "FileNotFoundError", fs |-> f]
    ELSE [err |-> "",
          fs |-> [q \in DOMAIN f \cup {Resolve(dst)} |->
                     IF q = Resolve(dst) THEN f[Resolve(src)] ELSE f[q]]]

\* temp_file.write_text(text) that completes.
write_text(f, path, text) ==
    [q \in DOMAIN f \cup {Resolve(path)} |-> IF q = Resolve(path) THEN text ELSE f[q]]

\* os.rename(src, dst) as shutil.move does it for a sibling file: dst now
\* names the file src named.
move(f, src, dst) ==
    [q \in (DOMAIN f \cup {Resolve(dst)}) \ ({Resolve(src)} \ {Resolve(dst)}) |->
        IF q = Resolve(dst) THEN f[Resolve(src)] ELSE f[q]]

\* A cleanup that removes nothing.
unlink_skipped(f, path) == f

\* path.unlink(missing_ok=True).
unlink(f, path) == [q \in DOMAIN f \ {Resolve(path)} |-> f[q]]

\* A write that goes to the target itself.
temp_file_in_place(path) == path

\* temp_file of Syncer._write: path.with_name(f".~{path.name}.temp").
temp_file(path) == with_name(path, <<".~">> \o name(path) \o <<".temp">>)

---------------------------------------------------------------------------
(* Syncer (sync.py:230-272).                                               *)

CurPath == targets[idx]

\* The key of the _COMMENTS lookup: self.path.suffix or self.path.name.
SuffixKey(path) == IF suffix(path) # "" THEN suffix(path) ELSE name(path)[1]

\* SyncHelper(self.context, path) followed by helper.run(): the helper as
\* run leaves it.  An unmapped suffix raises KeyError in __post_init__.
HelperRun(f, path) ==
    IF SuffixKey(path) \notin DOMAIN COMMENTS
    THEN [NewHelper(<<>>) EXCEPT !.pc = "raised", !.err = "KeyError"]
    ELSE IF Resolve(path) \notin DOMAIN f
    THEN [NewHelper(<<>>) EXCEPT !.pc = "raised", !.err = "FileNotFoundError"]
    ELSE RunFrom(NewHelper(splitlines(f[Resolve(path)])),
                 inline_regex(COMMENTS[SuffixKey(path)].start))

\* Where run_on goes after helper.run(): an exception of the helper
\* propagates, otherwise _save is called.
AfterHelperSwallow(h) == "save"

AfterHelper(h) == IF h.pc = "raised" THEN "raised" ELSE "save"

\* run_on, first part: helper = SyncHelper(self.context, path); helper.run().
RunOnHelper ==
    /\ spc = "run_on"
    /\ LET h == HelperRun(fs, CurPath)
       IN  /\ SetHelper(h)
           /\ pattern' = IF SuffixKey(CurPath) \in DOMAIN COMMENTS
                         THEN inline_regex(COMMENTS[SuffixKey(CurPath)].start)
                         ELSE pattern
           /\ spc' = AfterHelper(h)
           /\ serr' = IF AfterHelper(h) = "raised" THEN h.err ELSE serr
           /\ raised_in' = IF AfterHelper(h) = "raised" THEN "helper" ELSE raised_in
           /\ wlines' = h.new_lines
    /\ UNCHANGED <<expandVars, mergeVars, restVars,
                   fs, backup, targets, idx, pending, orig, before, write_entered>>

\* _save up to its call of _write: the backup copy when self.backup.
SaveBackup ==
    /\ spc = "save"
    /\ LET bp == bak_path(CurPath)
           c  == copyfile(fs, CurPath, bp.val)
           e  == IF ~backup THEN "" ELSE IF bp.err # "" THEN bp.err ELSE c.err
       IN  /\ fs' = IF backup /\ e = "" THEN c.fs ELSE fs
           /\ spc' = IF e = "" THEN "write" ELSE "raised"
           /\ serr' = IF e = "" THEN serr ELSE e
           /\ raised_in' = IF e = "" THEN raised_in ELSE "save"
           /\ write_entered' = (e = "")
    /\ UNCHANGED <<helperVars, expandVars, mergeVars, restVars,
                   backup, targets, idx, wlines, pending, orig, before>>

\* _write: temp_file.write_text("\n".join(lines)) completes.
WriteTempOk ==
    /\ spc = "write"
    /\ fs' = write_text(fs, temp_file(CurPath), JoinLines(wlines))
    /\ spc' = "move"
    /\ UNCHANGED <<helperVars, expandVars, mergeVars, restVars,
                   backup, targets, idx, wlines, pending, serr,
                   raised_in, orig, before, write_entered>>

\* _write: write_text raises: the temporary file was not opened, or holds
\* a proper prefix of the text.
WriteTempFail ==
    /\ spc = "write"
    /\ LET text == JoinLines(wlines)
       IN  \/ fs' = fs
           \/ \E n \in 0..(Len(text) - 1) :
                  fs' = write_text(fs, temp_file(CurPath), SubSeq(text, 1, n))
    /\ pending' = "OSError"
    /\ spc' = "unlink"
    /\ UNCHANGED <<helperVars, expandVars, mergeVars, restVars,
                   backup, targets, idx, wlines, serr, raised_in,
                   orig, before, write_entered>>

\* _write: shutil.move(temp_file, path) renames the temporary file.
MoveOk ==
    /\ spc = "move"
    /\ fs' = move(fs, temp_file(CurPath), CurPath)
    /\ spc' = "unlink"
    /\ UNCHANGED <<helperVars, expandVars, mergeVars, restVars,
                   backup, targets, idx, wlines, pending, serr,
                   raised_in, orig, before, write_entered>>

\* _write: shutil.move raises and renames nothing.
MoveFail ==
    /\ spc = "move"
    /\ pending' = "OSError"
    /\ spc' = "unlink"
    /\ UNCHANGED <<helperVars, expandVars, mergeVars, restVars,
                   fs, backup, targets, idx, wlines, serr, raised_in,
                   orig, before, write_entered>>

\* _write: the finally clause, temp_file.unlink(missing_ok=True), after
\* which the exception in flight, if any, propagates.
Unlink ==
    /\ spc = "unlink"
    /\ fs' = unlink(fs, temp_file(CurPath))
    /\ spc' = IF pending # "" THEN "raised" ELSE "log"
    /\ serr' = IF pending # "" THEN pending ELSE serr
    /\ raised_in' = IF pending # "" THEN "write" ELSE raised_in
    /\ pending' = ""
    /\ UNCHANGED <<helperVars, expandVars, mergeVars, restVars,
                   backup, targets, idx, wlines, orig, before,
                   write_entered>>

\* run_on, last part (_log), and the step of the loop of Syncer.run.
LogAndNext ==
    /\ spc = "log"
    /\ IF idx < Len(targets)
       THEN /\ idx' = idx + 1
            /\ spc' = "run_on"
            /\ before' = fs
            /\ write_entered' = FALSE
       ELSE /\ spc' = "done"
            /\ UNCHANGED <<idx, before, write_entered>>
    /\ UNCHANGED <<helperVars, expandVars, mergeVars, restVars,
                   fs, backup, targets, wlines, pending, serr,
                   raised_in, orig>>

---------------------------------------------------------------------------
(* Syncer.run over the target files of a small repository.                 *)

FileA == Path(FALSE, << <<"a", ".toml">> >>)

FileB == Path(FALSE, << <<"sub">>, <<"b", ".toml">> >>)

FileN == Path(FALSE, << <<"sub">>, <<"n", ".txt">> >>)

RepoFiles == {FileA, FileB, FileN}

TextMarked == JoinLines(<<MarkerLine1, <<"OLD1">>, <<"UNRELATED">>, <<>> >>)

TextPlain == <<"OLD1">>

Texts == {TextMarked, TextPlain}

\* The sequences without repetition over S of length 0..n.
DistinctSeqs(S, n) ==
    {q \in SeqUpTo(S, n) : \A i, j \in 1..Len(q) : i # j => q[i] # q[j]}

IdleHelper ==
    /\ HelperIs(NewHelper(<<>>))
    /\ pattern = inline_regex("#")

SyncerInit ==
    /\ IdleHelper
    /\ IdleExpand
    /\ IdleMerge
    /\ IdleRest
    /\ backup \in BOOLEAN
    /\ targets \in DistinctSeqs(RepoFiles, MaxTargets)
    /\ \E content \in [RepoFiles -> Texts] :
           fs = [q \in {Resolve(r) : r \in RepoFiles} |->
                    content[CHOOSE r \in RepoFiles : Resolve(r) = q]]
    /\ idx = 1
    /\ wlines = <<>>
    /\ spc = IF targets = <<>> THEN "done" ELSE "run_on"
    /\ pending = ""
    /\ serr = ""
    /\ raised_in = ""
    /\ orig = fs
    /\ before = fs
    /\ write_entered = FALSE

SyncerNext ==
    \/ RunOnHelper
    \/ SaveBackup
    \/ WriteTempOk
    \/ WriteTempFail
    \/ MoveOk
    \/ MoveFail
    \/ Unlink
    \/ LogAndNext

SpecSyncer == SyncerInit /\ [][SyncerNext]_vars

---------------------------------------------------------------------------
(* Syncer._write(path, lines) on its own: any lines up to MaxWrite, a      *)
(* target with any text, and a temporary file that may be left over from   *)
(* an earlier run.                                                         *)

WriteInit ==
    /\ IdleHelper
    /\ IdleExpand
    /\ IdleMerge
    /\ IdleRest
    /\ backup = FALSE
    /\ targets = <<FileA>>
    /\ idx = 1
    /\ wlines \in SeqUpTo(LineAlphabet, MaxWrite)
    /\ \E text \in Texts, stale \in BOOLEAN :
           fs = [q \in {Resolve(FileA)} \cup
                       (IF stale THEN {Resolve(temp_file(FileA))} ELSE {}) |->
                    IF q = Resolve(FileA) THEN text ELSE <<"STALE">>]
    /\ spc = "write"
    /\ pending = ""
    /\ serr = ""
    /\ raised_in = ""
    /\ orig = fs
    /\ before = fs
    /\ write_entered = TRUE

WriteNext ==
    \/ WriteTempOk
    \/ WriteTempFail
    \/ MoveOk
    \/ MoveFail
    \/ Unlink

SpecWrite == WriteInit /\ [][WriteNext]_vars

---------------------------------------------------------------------------
(* Claims about Syncer._write (checked under SpecWrite).                   *)

Target == Resolve(CurPath)

TempPath == Resolve(temp_file(CurPath))

C4_TempGoneAfterWrite ==
    spc \in {"log", "raised"} => TempPath \notin DOMAIN fs

\* C4 witness: _write has raised, the temporary file existed before the
\* call, and it is gone.
C4_Witness ==
    /\ spc = "raised"
    /\ TempPath \in DOMAIN before
    /\ TempPath \notin DOMAIN fs

---------------------------------------------------------------------------
(* Claims about Syncer.run and run_on (checked under SpecSyncer).          *)

\* C6: when the helper of the current run_on has raised (the scan of the
\* file or the evaluation of a template failed), run_on has raised, _write
\* was not entered, and the target file holds the text it held before the
\* call.
C6_FailedScanLeavesFile ==
    hpc = "raised" =>
        /\ spc = "raised"
        /\ ~write_entered
        /\ Target \in DOMAIN fs
        /\ fs[Target] = before[Target]
        /\ TempPath \notin DOMAIN fs

\* C6 witness: the helper raised on the second target file, after a first
\* file was written.
C6_Witness ==
    /\ hpc = "raised"
    /\ spc = "raised"
    /\ raised_in = "helper"
    /\ idx = 2
    /\ fs # orig

\* The backup path of target i holds the text the target had before the
\* sync.
BackupHolds(i) ==
    /\ bak_path(targets[i]).err = ""
    /\ Resolve(bak_path(targets[i]).val) \in DOMAIN fs
    /\ fs[Resolve(bak_path(targets[i]).val)] = orig[Resolve(targets[i])]

\* C8: with backup enabled, the backup step of _save does not fail; while
\* and after a target file is written, its backup path holds the text the
\* file had before the sync; and once Syncer.run has processed all target
\* files, every target file has such a backup and two different target files
\* have different backup paths.
C8_BackupsHoldOldContent ==
    (backup /\ targets # <<>>) =>
        /\ raised_in # "save"
        /\ write_entered => BackupHolds(idx)
        /\ spc = "done" =>
               /\ \A i \in 1..Len(targets) : BackupHolds(i)
               /\ \A i, j \in 1..Len(targets) :
                      i # j => bak_path(targets[i]).val # bak_path(targets[j]).val

---------------------------------------------------------------------------
(* Data.replace_vars_in and Data.expand_var on their own, for every tree   *)
(* of SmallTrees and every template of up to MaxTemplate tokens.           *)

Leaves == {StrLeaf("x"), StrLeaf("y"), IntLeaf("1"), ListLeaf("l")}

\* The dicts over the keys in `keys` whose values are drawn from `nodes`
\* (every subset of the keys may be present).
DictsOver(keys, nodes) == UNION {[ks -> nodes] : ks \in SUBSET keys}

\* Trees of depth up to two: "a" is absent, a leaf or a branch with at most
\* the key "b"; "b" is absent or a leaf.
SmallTrees ==
    LET subs == {Dict(d) : d \in DictsOver({K("b")}, Leaves)}
    IN  {t \in DictsOver({K("a"), K("b")}, Leaves \cup subs) :
            K("b") \in DOMAIN t => t[K("b")].t # "dict"}

TemplateTokens == {"v=", "${{a.b}}", "${{a.c}}", "${{\"a\".b}}", "${{\"a\".c}}"}

ExpandInit ==
    /\ IdleHelper
    /\ IdleSyncer
    /\ IdleMerge
    /\ IdleRest
    /\ etree \in SmallTrees
    /\ etemplate \in SeqUpTo(TemplateTokens, MaxTemplate)
    /\ eop = ""
    /\ eexpr = ""
    /\ eresult = [err |-> "", val |-> <<>>]

\* A call of Data.replace_vars_in(template).
ReplaceVarsIn ==
    /\ eop = ""
    /\ eop' = "replace_vars_in"
    /\ eresult' = replace_vars_in(etree, etemplate)
    /\ UNCHANGED <<helperVars, syncerVars, mergeVars, restVars, etree, etemplate, eexpr>>

\* A call of Data.expand_var(expression) on the expression of one
\* `${{ expr }}` of the template.
ExpandVar ==
    /\ eop = ""
    /\ \E i \in 1..Len(etemplate) :
           /\ etemplate[i] \in DOMAIN EXPR_REGEX
           /\ eexpr' = etemplate[i]
           /\ eresult' = expand_var(etree, EXPR_REGEX[etemplate[i]])
    /\ eop' = "expand_var"
    /\ UNCHANGED <<helperVars, syncerVars, mergeVars, restVars, etree, etemplate>>

ExpandNext == ReplaceVarsIn \/ ExpandVar

SpecExpand == ExpandInit /\ [][ExpandNext]_vars

\* The expression of token tok resolves to no value in the tree.
Unresolved(tok) ==
    /\ tok \in DOMAIN EXPR_REGEX
    /\ JmesFrom(Dict(etree), ExprPath(EXPR_REGEX[tok]), 1) = NoneVal

\* C5: a call of expand_var on an expression that resolves to no value
\* raises, and a call of replace_vars_in on a template that holds such an
\* expression raises (it returns no text in which the expression was
\* replaced by the empty string or by its own text).
C5_UnresolvedRaises ==
    /\ (eop = "expand_var" /\ Unresolved(eexpr)) => eresult.err # ""
    /\ (eop = "replace_vars_in"
          /\ \E i \in 1..Len(etemplate) : Unresolved(etemplate[i]))
        => eresult.err # ""

\* C5 witness: replace_vars_in was called on text followed by a general
\* query that matches nothing in a tree that has the branch "a", and raised.
C5_Witness ==
    /\ eop = "replace_vars_in"
    /\ etemplate = <<"v=", "${{\"a\".c}}">>
    /\ K("a") \in DOMAIN etree
    /\ etree[K("a")].t = "dict"
    /\ Unresolved(etemplate[2])
    /\ eresult.err # ""

---------------------------------------------------------------------------
(* Limbs and DotTrees.merge_leaves (dot_tree.py:194-243, 372-384,          *)
(* 429-443, 627-678).  A dotted key is the sequence of its atoms; a limb   *)
(* (a dict from dotted keys to leaves) is the sequence of its items in     *)
(* insertion order.                                                        *)

\* The order in which a dict built from the keys of the model is iterated.
KeyOrder == <<K("a"), K("b"), K("cd"), K("a b"), K(""), <<"a", "b">>, K("0"), K("1"),
              K("c"), K("d")>>

\* dict.items(): the items [k, v] of the dict d, in order.
items(d) ==
    LET ks == SelectSeq(KeyOrder, LAMBDA k : k \in DOMAIN d)
    IN  [i \in 1..Len(ks) |-> [k |-> ks[i], v |-> d[ks[i]]]]

Has(limb, k) == \E i \in 1..Len(limb) : limb[i].k = k

Get(limb, k) == limb[CHOOSE i \in 1..Len(limb) : limb[i].k = k].v

\* limb[k] = v on an ordered dict: a present key keeps its place.
SetItem(limb, k, v) ==
    IF Has(limb, k)
    THEN [i \in 1..Len(limb) |-> IF limb[i].k = k THEN [k |-> k, v |-> v] ELSE limb[i]]
    ELSE Append(limb, [k |-> k, v |-> v])

\* limb.update(other)
RECURSIVE update(_, _)
update(limb, other) ==
    IF other = <<>> THEN limb
    ELSE update(SetItem(limb, Head(other).k, Head(other).v), Tail(other))

\* DotTree.leaves() of the tree whose _raw is `raw`.
RECURSIVE leaves(_)
leaves(raw) ==
    LET its == items(raw)
        dct[i \in 0..Len(its)] ==
            IF i = 0 THEN <<>>
            ELSE IF its[i].v.t = "dict"
            THEN LET sub == leaves(its[i].v.d)
                 IN  update(dct[i - 1],
                            [j \in 1..Len(sub) |->
                                [k |-> its[i].k \o sub[j].k, v |-> sub[j].v]])
            ELSE SetItem(dct[i - 1], its[i].k, its[i].v)
    IN  dct[Len(its)]

\* DotTrees.leaf_intersection(*limbs)
leaf_intersection(limbs) ==
    LET all_keys == UNION {{limbs[i][j].k : j \in 1..Len(limbs[i])} :
                              i \in 1..Len(limbs)}
        holders(k) == SelectSeq(limbs, LAMBDA limb : Has(limb, k))
        dict_ == [k \in all_keys |->
                     [i \in 1..Len(holders(k)) |-> Get(holders(k)[i], k)]]
    IN  [k \in {k \in all_keys : Len(dict_[k]) > 1} |-> dict_[k]]

\* len(set(v)) for a list v of leaves; set() raises TypeError on a list.
Unhashable(v) == \E i \in 1..Len(v) : v[i].t = "list"

SetLen(v) == Cardinality({v[i] : i \in 1..Len(v)})

\* '/'.join(v) raises TypeError unless every item is a str.
JoinRaises(v) == \E i \in 1..Len(v) : v[i].t # "str"

\* LeafIntersectionError(intersection): the exception that ends up raised.
LeafIntersectionError(intersection) ==
    IF DOMAIN intersection # {}
       /\ \/ \E k \in DOMAIN intersection : Unhashable(intersection[k])
          \/ \E k \in DOMAIN intersection :
                 SetLen(intersection[k]) > 1 /\ JoinRaises(intersection[k])
    THEN Raise("TypeError")
    ELSE [err |-> "LeafIntersectionError", val |-> intersection]

\* LeafConflictError(intersection)
LeafConflictError(intersection) ==
    IF DOMAIN intersection # {}
       /\ \/ \E k \in DOMAIN intersection : Unhashable(intersection[k])
          \/ \E k \in DOMAIN intersection :
                 SetLen(intersection[k]) > 1 /\ JoinRaises(intersection[k])
    THEN Raise("TypeError")
    ELSE [err |-> "LeafConflictError", val |-> intersection]

\* Utils.merge_lists of the module's _UTILS = Utils().
merge_lists == FALSE

\* dst[k] = v on a dict.
Put(dst, k, v) == [x \in DOMAIN dst \cup {k} |-> IF x = k THEN v ELSE dst[x]]

\* Utils._nest_check were it to accept every key.
nest_check_off(dst, key, item) == FALSE

\* Utils._nest_check: whether it raises DuplicateKeyError.
nest_check(dst, key, item) ==
    /\ key \in DOMAIN dst
    /\ \/ dst[key].t # item.t
       \/ dst[key].t \notin {"dict", "list"}
       \/ (dst[key].t = "list" /\ ~merge_lists)

\* Utils._nest(dst, key, item) and the loop `for k, v in its: _nest(dst, k, v)`
\* from item i on; each gives the dict dst has become, or the exception.
RECURSIVE nest_(_, _, _), NestAll(_, _, _)
nest_(dst, key, item) ==
    IF nest_check(dst, key, item) THEN Raise("DuplicateKeyError")
    ELSE IF Len(key) > 1
    THEN \* _nest_branch
         LET head == K(Head(key))
             sub  == IF head \in DOMAIN dst THEN dst[head] ELSE Dict(NoKeys)
         IN  IF sub.t # "dict" THEN Raise("DuplicateKeyError")
             ELSE LET r == nest_(sub.d, Tail(key), item)
                  IN  IF r.err # "" THEN r ELSE Ok(Put(dst, head, Dict(r.val)))
    ELSE \* _nest_leaf
         IF item.t = "dict"
         THEN LET node == IF key \in DOMAIN dst THEN dst[key] ELSE Dict(NoKeys)
                  r    == NestAll(node.d, items(item.d), 1)
              IN  IF r.err # "" THEN r ELSE Ok(Put(dst, key, Dict(r.val)))
         ELSE Ok(Put(dst, key, item))

NestAll(dst, its, i) ==
    IF i > Len(its) THEN Ok(dst)
    ELSE LET r == nest_(dst, its[i].k, its[i].v)
         IN  IF r.err # "" THEN r ELSE NestAll(r.val, its, i + 1)

\* Utils.nest(items)
nest(limb) == NestAll(NoKeys, limb, 1)

\* DotTree.from_dotted were it to leave out the last leaf.
from_dotted_but_last(x) == nest(SubSeq(x, 1, Len(x) - 1))

\* DotTree.from_dotted(x)
from_dotted(x) == nest(x)

\* The limbs of all the trees, merged in order with dict.update.
RECURSIVE MergedFrom(_, _, _)
MergedFrom(merged, limbs, i) ==
    IF i > Len(limbs) THEN merged
    ELSE MergedFrom(update(merged, limbs[i]), limbs, i + 1)

\* DotTrees.merge_leaves(*trees, replace=replace)
merge_leaves(trees, replace) ==
    LET limbs     == [i \in 1..Len(trees) |-> leaves(trees[i])]
        intersect == leaf_intersection(limbs)
    IN  IF replace = "never" /\ DOMAIN intersect # {}
        THEN LeafIntersectionError(intersect)
        ELSE IF replace = "same_value" /\ DOMAIN intersect # {}
                /\ \E k \in DOMAIN intersect : Unhashable(intersect[k])
        THEN Raise("TypeError")
        ELSE IF replace = "same_value" /\ DOMAIN intersect # {}
                /\ \E k \in DOMAIN intersect : SetLen(intersect[k]) > 1
        THEN LeafConflictError(intersect)
        ELSE from_dotted(MergedFrom(<<>>, limbs, 1))

---------------------------------------------------------------------------
(* DotTrees.merge_leaves on its own, for up to MaxTrees trees of           *)
(* SmallTrees and every policy.                                            *)

\* The values of `replace`: the three of its annotation (dot_tree.py:634)
\* and the one merge_leaves compares it against (dot_tree.py:657).
Policies == {"always", "if_values_match", "never", "same_value"}

MergeInit ==
    /\ IdleHelper
    /\ IdleSyncer
    /\ IdleExpand
    /\ IdleRest
    /\ mtrees \in SeqUpTo(SmallTrees, MaxTrees)
    /\ mreplace = ""
    /\ mop = ""
    /\ mresult = [err |-> "", val |-> NoKeys]

\* A call of DotTrees.merge_leaves(*trees, replace=replace).
MergeLeaves ==
    /\ mop = ""
    /\ \E replace \in Policies :
           /\ mreplace' = replace
           /\ mresult' = merge_leaves(mtrees, replace)
    /\ mop' = "merge_leaves"
    /\ UNCHANGED <<helperVars, syncerVars, expandVars, restVars, mtrees>>

MergeNext == MergeLeaves

SpecMerge == MergeInit /\ [][MergeNext]_vars

\* The leaf paths that two or more of the trees hold, and those of them
\* that hold two or more distinct values.
PathsOf(raw) == {leaves(raw)[j].k : j \in 1..Len(leaves(raw))}

SharedPaths ==
    {p \in UNION {PathsOf(mtrees[i]) : i \in 1..Len(mtrees)} :
        \E i, j \in 1..Len(mtrees) :
            i # j /\ p \in PathsOf(mtrees[i]) /\ p \in PathsOf(mtrees[j])}

ValuesAt(p) ==
    {Get(leaves(mtrees[i]), p) : i \in {i \in 1..Len(mtrees) : p \in PathsOf(mtrees[i])}}

ConflictPaths == {p \in SharedPaths : Cardinality(ValuesAt(p)) > 1}

\* C9: a merge under the policy "if_values_match" of trees in which some leaf
\* path holds two or more distinct values raises LeafConflictError, and the
\* error names every such path with its distinct values.
C9_ConflictRaises ==
    (mop = "merge_leaves" /\ mreplace = "if_values_match" /\ ConflictPaths # {})
        => /\ mresult.err = "LeafConflictError"
           /\ \A p \in ConflictPaths :
                  /\ p \in DOMAIN mresult.val
                  /\ {mresult.val[p][i] : i \in 1..Len(mresult.val[p])} = ValuesAt(p)

\* C10: a merge under the policy "never" raises LeafIntersectionError with
\* every shared leaf path when the trees share a leaf path, whatever the
\* values, and returns a tree only when they share none.
C10_NeverRaisesOnShared ==
    (mop = "merge_leaves" /\ mreplace = "never")
        => /\ SharedPaths # {} =>
                  /\ mresult.err = "LeafIntersectionError"
                  /\ DOMAIN mresult.val = SharedPaths
           /\ mresult.err = "" => SharedPaths = {}

\* The value of the rightmost tree that holds the leaf path p.
RightmostAt(p) ==
    LET i == CHOOSE i \in 1..Len(mtrees) :
                 /\ p \in PathsOf(mtrees[i])
                 /\ \A j \in (i + 1)..Len(mtrees) : p \notin PathsOf(mtrees[j])
    IN  Get(leaves(mtrees[i]), p)

AllPaths == UNION {PathsOf(mtrees[i]) : i \in 1..Len(mtrees)}

\* C11: a merge under the policy "always" returns a tree, whose leaf paths
\* are the union of the leaf paths of the trees and in which each path
\* holds the value of the rightmost tree that has it.
C11_AlwaysMergesUnion ==
    (mop = "merge_leaves" /\ mreplace = "always")
        => /\ mresult.err = ""
           /\ PathsOf(mresult.val) = AllPaths
           /\ \A p \in AllPaths : Get(leaves(mresult.val), p) = RightmostAt(p)

---------------------------------------------------------------------------
(* One DotTree built from nested data, and the calls normalize,            *)
(* from_dotted(leaves()), get and access on it (dot_tree.py:369-443,       *)
(* 584-614).                                                               *)

\* Trees of depth up to three (with empty branches at every depth): "a" is
\* absent, a leaf or a branch over "b" and "cd", whose values are leaves or
\* branches over "b"; "b" is absent or a leaf.
DeepTrees ==
    LET sub1 == {Dict(d) : d \in DictsOver({K("b")}, Leaves)}
        sub2 == {Dict(d) : d \in DictsOver({K("b"), K("cd")}, Leaves \cup sub1)}
    IN  {t \in DictsOver({K("a"), K("b")}, Leaves \cup sub2) :
            K("b") \in DOMAIN t => t[K("b")].t # "dict"}

\* The segments a dotted path is made of.
Segments == {"a", "b", "cd"}

\* DotTree.normalize() were it to return the tree as it is.
normalize_as_is(raw) == Ok(raw)

\* DotTree.normalize()
normalize(raw) == from_dotted(leaves(raw))

TreeInit ==
    /\ IdleHelper
    /\ IdleSyncer
    /\ IdleExpand
    /\ IdleMerge
    /\ IdleFactory
    /\ IdleLater
    /\ ttree \in DeepTrees
    /\ torig = ttree
    /\ tkeys \in SeqUpTo(Segments, MaxSegments) \ {<<>>}
    /\ tdefault \in {NoneVal, StrLeaf("dflt")}
    /\ top = ""
    /\ tresult = [err |-> "", val |-> NoneVal]
    /\ tmsg = <<>>
    /\ tprev = NoKeys
    /\ tnorm = 0

\* tree = tree.normalize()
Normalize ==
    /\ top \in {"", "normalize"}
    /\ tresult.err = ""
    /\ tnorm < MaxNormalize
    /\ LET r == normalize(ttree)
       IN  /\ tresult' = r
           /\ ttree' = IF r.err = "" THEN r.val ELSE ttree
    /\ tprev' = ttree
    /\ tnorm' = tnorm + 1
    /\ top' = "normalize"
    /\ UNCHANGED <<helperVars, syncerVars, expandVars, mergeVars, factoryVars, laterVars,
                   tkeys, tdefault, tmsg, torig>>

\* DotTree.from_dotted(tree.leaves())
FromDottedLeaves ==
    /\ top = ""
    /\ tresult' = from_dotted(leaves(ttree))
    /\ top' = "from_dotted"
    /\ UNCHANGED <<helperVars, syncerVars, expandVars, mergeVars, factoryVars, laterVars,
                   ttree, tkeys, tdefault, tmsg, tprev, tnorm, torig>>

\* DotTree.get(keys, default): only the KeyError of _access is caught.
get(raw, keys, default) ==
    LET r == AccessFrom(Dict(raw), keys, 1)
    IN  IF r.err = "KeyError" THEN Ok(default) ELSE r

\* The characters of a segment, and '.'.join(segments).
Chars(a) ==
    CASE a = "a" -> <<"a">>
      [] a = "b" -> <<"b">>
      [] a = "cd" -> <<"c", "d">>

RECURSIVE JoinDot(_)
JoinDot(segs) ==
    IF segs = <<>> THEN <<>>
    ELSE IF Len(segs) = 1 THEN Chars(segs[1])
    ELSE Chars(Head(segs)) \o <<".">> \o JoinDot(Tail(segs))

\* The iteration of the loop of _access that raises: the first i for which
\* the walk over split[:i] fails (counted from 1), or 0 if none does.
RaisesAt(raw, split) ==
    LET bad == {i \in 1..Len(split) :
                   AccessFrom(Dict(raw), SubSeq(split, 1, i), 1).err # ""}
    IN  IF bad = {} THEN 0 ELSE CHOOSE i \in bad : \A j \in bad : i <= j

\* The message _access builds in iteration i (counted from 1) for the str
\* `keys` whose segments are split: the joined split[:i-1], the segment
\* between "<<" and ">>", and keys[i:], a slice of the str at character i.
error_message(split, i, err) ==
    LET keys == JoinDot(split)
        at   == JoinDot(SubSeq(split, 1, i - 1)) \o <<"<<">> \o Chars(split[i])
                    \o <<">>">> \o PySlice(keys, i, Len(keys))
    IN  IF err = "KeyError"
        THEN <<"No such key '">> \o at \o <<"'.">>
        ELSE <<"Value at key '">> \o at \o <<"' is a ... not an object.">>

\* tree.get(keys, default)
TreeGet ==
    /\ top = ""
    /\ tresult' = get(ttree, tkeys, tdefault)
    /\ tmsg' = IF tresult'.err = ""
               THEN <<>>
               ELSE error_message(tkeys, RaisesAt(ttree, tkeys), tresult'.err)
    /\ top' = "get"
    /\ UNCHANGED <<helperVars, syncerVars, expandVars, mergeVars, factoryVars, laterVars,
                   ttree, tkeys, tdefault, tprev, tnorm, torig>>

\* tree.access(keys)
TreeAccess ==
    /\ top = ""
    /\ tresult' = access(ttree, tkeys)
    /\ tmsg' = IF tresult'.err = ""
               THEN <<>>
               ELSE error_message(tkeys, RaisesAt(ttree, tkeys), tresult'.err)
    /\ top' = "access"
    /\ UNCHANGED <<helperVars, syncerVars, expandVars, mergeVars, factoryVars, laterVars,
                   ttree, tkeys, tdefault, tprev, tnorm, torig>>

TreeNext == Normalize \/ FromDottedLeaves \/ TreeGet \/ TreeAccess

SpecTree == TreeInit /\ [][TreeNext]_vars

---------------------------------------------------------------------------
(* Claims about one DotTree (checked under SpecTree).                      *)

\* The leaves of a tree as a set of (path, value) pairs.
LeafSet(raw) == {leaves(raw)[j] : j \in 1..Len(leaves(raw))}

RECURSIVE NoEmptyBranch(_)
NoEmptyBranch(raw) ==
    \A k \in DOMAIN raw :
        raw[k].t = "dict" => raw[k].d # NoKeys /\ NoEmptyBranch(raw[k].d)

\* C12: for a tree t built from nested data, from_dotted(t.leaves())
\* returns a tree whose leaves are the leaves of t: the same dotted paths
\* with the same values.
C12_LeavesRoundTrip ==
    top = "from_dotted" =>
        /\ tresult.err = ""
        /\ LeafSet(tresult.val) = LeafSet(ttree)

\* C12 witness: the round trip was made on a tree that has a leaf at depth
\* three, a leaf at the top and an empty branch.
C12_Witness ==
    /\ top = "from_dotted"
    /\ tresult.err = ""
    /\ \E p \in PathsOf(ttree) : Len(p) = 3
    /\ \E p \in PathsOf(ttree) : Len(p) = 1
    /\ ~NoEmptyBranch(ttree)

\* C13: normalize returns a tree without an empty branch, and a second
\* normalize returns a tree equal to the one it was called on.
C13_NormalizeIdempotent ==
    (top = "normalize" /\ tnorm >= 1) =>
        /\ tresult.err = ""
        /\ NoEmptyBranch(ttree)
        /\ tnorm >= 2 => ttree = tprev

\* C13 witness: normalize was called twice on a tree that was built with an
\* empty branch next to a nested leaf.
C13_Witness ==
    /\ top = "normalize"
    /\ tnorm = 2
    /\ ~NoEmptyBranch(torig)
    /\ \E p \in PathsOf(ttree) : Len(p) >= 2
    /\ ttree = tprev
    /\ ttree # torig

\* C14: get never raises for a lookup failure: it returns the value access
\* walks to when every segment resolves, and `default` when a key is absent
\* or a node on the path is not a branch.
C14_GetReturnsDefault ==
    top = "get" =>
        /\ tresult.err = ""
        /\ tresult.val = IF RaisesAt(ttree, tkeys) = 0
                         THEN AccessFrom(Dict(ttree), tkeys, 1).val
                         ELSE tdefault

\* The parts of the message of a failed access: what stands before "<<",
\* between "<<" and ">>", and after ">>" (inside the quotes).
MsgAt(tok) == CHOOSE i \in 1..Len(tmsg) : tmsg[i] = tok

MsgPrefix == SubSeq(tmsg, 2, MsgAt("<<") - 1)

MsgSegment == SubSeq(tmsg, MsgAt("<<") + 1, MsgAt(">>") - 1)

MsgRest == SubSeq(tmsg, MsgAt(">>") + 1, Len(tmsg) - 1)

\* C18: when access fails at segment i, the message of the error holds the
\* resolved prefix (the segments before i), then segment i marked as the
\* failing one, then the rest of the path (the segments after i).
C18_ErrorNamesSegment ==
    (top = "access" /\ tresult.err # "") =>
        LET i    == RaisesAt(ttree, tkeys)
            rest == JoinDot(SubSeq(tkeys, i + 1, Len(tkeys)))
        IN  /\ MsgPrefix = JoinDot(SubSeq(tkeys, 1, i - 1))
            /\ MsgSegment = Chars(tkeys[i])
            /\ MsgRest \in {rest, <<".">> \o rest}

---------------------------------------------------------------------------
(* Checker, Utils.dotify and the factories from_nested, from_mixed and     *)
(* from_dotted (dot_tree.py:105-185, 245-269, 342-384).                    *)

\* Values that are no str, int or opaque list: a bool, an arbitrary object,
\* a list by its elements, and a tuple (k, v).
BoolLeaf(s) == [t |-> "bool", v |-> s, d |-> NoKeys]

ObjLeaf == [t |-> "object", v |-> "", d |-> NoKeys]

Idx == <<"0", "1", "2">>

ListOf(elems) ==
    [t |-> "list", v |-> "",
     d |-> [k \in {K(Idx[i]) : i \in 1..Len(elems)} |->
               elems[CHOOSE i \in 1..Len(elems) : K(Idx[i]) = k]]]

TupleOf(k, v) == [t |-> "tuple", v |-> "", d |-> One(k, v)]

\* The elements of a list; ListLeaf(s) is the list [s].
Elems(node) ==
    IF node.d = NoKeys
    THEN IF node.v = "" THEN <<>> ELSE <<StrLeaf(node.v)>>
    ELSE [i \in 1..Cardinality(DOMAIN node.d) |-> node.d[K(Idx[i])]]

\* The dict with the given items.
AsDict(its) == [k \in {its[i].k : i \in 1..Len(its)} |-> Get(its, k)]

\* Checker.is_primitive (float, date, datetime and time are left out).
is_primitive(value) == value.t \in {"str", "int", "bool"}

\* `not value` for a primitive.
Falsy(value) == value \in {StrLeaf(""), IntLeaf("0"), BoolLeaf("False")}

\* Checker.key_pattern.fullmatch(k): one or more of [\w~&|,;<>+-].
PatternAtoms == {"a", "b", "cd", "0", "1"}

key_pattern(k) == Len(k) = 1 /\ k[1] \in PatternAtoms

\* Checker.check_keys(node): the exception raised, or "" (all keys are str).
RECURSIVE check_keys(_)
check_keys(node) ==
    IF node.t = "list"
    THEN IF \E i \in 1..Len(Elems(node)) :
                /\ Elems(node)[i].t \in {"list", "dict"}
                /\ check_keys(Elems(node)[i]) # ""
         THEN "ValueError" ELSE ""
    ELSE IF node.t = "dict"
    THEN IF \E k \in DOMAIN node.d : Len(k) > 1 THEN "ValueError"
         ELSE IF \E k \in DOMAIN node.d :
                     node.d[k].t = "dict" /\ check_keys(node.d[k]) # ""
         THEN "ValueError"
         ELSE IF \E k \in DOMAIN node.d : ~key_pattern(k) THEN "ValueError"
         ELSE ""
    ELSE ""

\* Checker.check_values(node): the exception raised, or "".  In a dict,
\* check_primitive(v) raises TypeError for the first value that is no
\* primitive, and `not check_primitive(v)` counts a falsy primitive as bad.
RECURSIVE check_values(_), CheckValuesFrom(_, _)
check_values(node) ==
    IF node.t = "list" THEN CheckValuesFrom(Elems(node), 1)
    ELSE IF node.t = "dict"
    THEN IF \E k \in DOMAIN node.d : ~is_primitive(node.d[k]) THEN "TypeError"
         ELSE IF \E k \in DOMAIN node.d : Falsy(node.d[k]) THEN "ValueError"
         ELSE ""
    ELSE ""

CheckValuesFrom(elems, i) ==
    IF i > Len(elems) THEN ""
    ELSE IF elems[i].t \in {"list", "dict"} /\ check_values(elems[i]) # ""
    THEN check_values(elems[i])
    ELSE CheckValuesFrom(elems, i + 1)

\* Checker.check(node)
check(node) ==
    IF node.t \in {"dict", "list"}
    THEN IF check_keys(node) # "" THEN Raise(check_keys(node))
         ELSE IF check_values(node) # "" THEN Raise(check_values(node))
         ELSE Ok(node)
    ELSE IF is_primitive(node) THEN Ok(node) ELSE Raise("TypeError")

\* DotTree.from_nested(x)
from_nested(x) ==
    LET r == check(Dict(AsDict(x)))
    IN  IF r.err # "" THEN r ELSE Ok(AsDict(x))

\* Utils._dotify(path, item) and its loop over the items of a dict from
\* item i on: the (path, leaf) pairs it yields.  The empty path '' is K("").
RECURSIVE dotify_(_, _), DotifyItems(_, _, _)
dotify_(path, item) ==
    IF item.t = "dict" THEN DotifyItems(path, items(item.d), 1)
    ELSE IF item.t = "list"
    THEN LET elems == Elems(item)
             lst == [i \in 1..Len(elems) |->
                        LET sub == dotify_(K(""), elems[i])
                        IN  IF Len(sub) = 1
                            THEN TupleOf(sub[1].k, sub[1].v)
                            ELSE Dict(AsDict(sub))]
         IN  <<[k |-> path, v |-> ListOf(lst)]>>
    ELSE <<[k |-> path, v |-> item]>>

DotifyItems(path, its, i) ==
    IF i > Len(its) THEN <<>>
    ELSE LET new_path == IF path = K("") THEN its[i].k ELSE path \o its[i].k
         IN  dotify_(new_path, its[i].v) \o DotifyItems(path, its, i + 1)

\* Utils.dotify(items): dict(...) of the pairs, a later pair replacing an
\* earlier one with the same key.
dotify(its) == update(<<>>, DotifyItems(K(""), its, 1))

\* DotTree.from_mixed(x)
from_mixed(x) == nest(dotify(x))

\* The key invariant of a tree: every key at every depth, also in the
\* mappings inside lists, matches key_pattern (so it is not empty and has
\* no '.'), and every terminal value is a primitive.
RECURSIVE ValidNode(_)
ValidNode(node) ==
    IF node.t = "dict"
    THEN \A k \in DOMAIN node.d : key_pattern(k) /\ ValidNode(node.d[k])
    ELSE IF node.t = "list"
    THEN \A i \in 1..Len(Elems(node)) : ValidNode(Elems(node)[i])
    ELSE is_primitive(node)

---------------------------------------------------------------------------
(* The factories on their own, for every dict of up to MaxItems items      *)
(* over FactoryKeys and FactoryValues.                                     *)

FactoryKeys == {K("a"), K("b"), <<"a", "b">>, <<"a", "b", "b">>, K("a b"), K("")}

FactoryValues ==
    {StrLeaf("x"), StrLeaf(""), IntLeaf("0"), BoolLeaf("False"), NoneVal, ObjLeaf,
     ListLeaf("l"), ListOf(<<Dict(One(<<"a", "b">>, StrLeaf("x")))>>),
     Dict(NoKeys), Dict(One(K("b"), StrLeaf("x"))),
     Dict(One(K("b"), Dict(One(K("b"), StrLeaf("x")))))}

FactoryInit ==
    /\ IdleHelper
    /\ IdleSyncer
    /\ IdleExpand
    /\ IdleMerge
    /\ IdleTree
    /\ IdleLater
    /\ \E ks \in DistinctSeqs(FactoryKeys, MaxItems) :
           \E vs \in [1..Len(ks) -> FactoryValues] :
               fin = [i \in 1..Len(ks) |-> [k |-> ks[i], v |-> vs[i]]]
    /\ fop = ""
    /\ fresult = [err |-> "", val |-> NoKeys]

FromNested ==
    /\ fop = ""
    /\ fop' = "from_nested"
    /\ fresult' = from_nested(fin)
    /\ UNCHANGED <<helperVars, syncerVars, expandVars, mergeVars, treeVars, laterVars, fin>>

FromMixed ==
    /\ fop = ""
    /\ fop' = "from_mixed"
    /\ fresult' = from_mixed(fin)
    /\ UNCHANGED <<helperVars, syncerVars, expandVars, mergeVars, treeVars, laterVars, fin>>

FromDotted ==
    /\ fop = ""
    /\ fop' = "from_dotted"
    /\ fresult' = from_dotted(fin)
    /\ UNCHANGED <<helperVars, syncerVars, expandVars, mergeVars, treeVars, laterVars, fin>>

FactoryNext == FromNested \/ FromMixed \/ FromDotted

SpecFactory == FactoryInit /\ [][FactoryNext]_vars

---------------------------------------------------------------------------
(* Claims about the factories (checked under SpecFactory).                 *)

\* C15: a tree returned by from_nested, from_mixed or from_dotted satisfies
\* the key invariant: every key at every depth is a non-empty str without
\* '.' that matches the allowed characters, and every terminal value is a
\* primitive; an input that would break this makes the factory raise.
C15_FactoriesKeepKeyInvariant ==
    (fop # "" /\ fresult.err = "") => ValidNode(Dict(fresult.val))

\* A well-formed nested mapping: every key is valid and every terminal value
\* is a primitive or a list.
RECURSIVE WellFormed(_)
WellFormed(node) ==
    IF node.t = "dict"
    THEN \A k \in DOMAIN node.d : key_pattern(k) /\ WellFormed(node.d[k])
    ELSE node.t = "list" \/ is_primitive(node)

\* C16: from_nested returns a tree equal to its input when the input is a
\* well-formed nested mapping, whatever its depth and also with falsy
\* primitives, and raises only when a key or a terminal value is invalid.
C16_FromNestedAcceptsWellFormed ==
    fop = "from_nested" =>
        /\ WellFormed(Dict(AsDict(fin))) =>
               fresult.err = "" /\ fresult.val = AsDict(fin)
        /\ fresult.err # "" => ~WellFormed(Dict(AsDict(fin)))

\* The dotted input defines a key as a leaf (a value that is no dict) and
\* uses the same key as a branch prefix of another entry.
LeafAndPrefix ==
    \E i, j \in 1..Len(fin) :
        /\ fin[i].v.t # "dict"
        /\ Len(fin[i].k) < Len(fin[j].k)
        /\ IsPrefix(fin[i].k, fin[j].k)

---------------------------------------------------------------------------
(* PEP 440 versions: TyrannoJmesFunctions.pep440_ascending and             *)
(* pep440_descending (james.py:403-407), _Utils.sanitize_pep440            *)
(* (james.py:353-367) and TyrannoFunctions._func_best_compatible_pep440    *)
(* (cicd/james.py:116-124).                                                *)
(* A version string is the record of its parts as written: epoch is <<>>   *)
(* or <<n>> ("n!"), release the written numbers ("1" is <<1>>, "1.0.0" is   *)
(* <<1, 0, 0>>), pre is <<>> or <<letter, n>>, post and dev are <<>> or     *)
(* <<n>>.  A parsed Version keeps the release as written and has a number   *)
(* for its epoch; None is <<>>.                                             *)

VersionText(epoch, release, pre, post, dev) ==
    [epoch |-> epoch, release |-> release, pre |-> pre, post |-> post, dev |-> dev]

\* Version(v) of packaging, as Pep440(v) at james.py:404 and Version(v) at
\* cicd/james.py:119: a missing epoch is 0, the release is kept as written.
Pep440(text) ==
    [epoch   |-> IF text.epoch = <<>> THEN 0 ELSE text.epoch[1],
     release |-> text.release,
     pre     |-> text.pre,
     post    |-> text.post,
     dev     |-> text.dev]

\* Version.major, Version.minor, Version.micro: a missing number is 0.
major(v) == IF Len(v.release) >= 1 THEN v.release[1] ELSE 0

minor(v) == IF Len(v.release) >= 2 THEN v.release[2] ELSE 0

micro(v) == IF Len(v.release) >= 3 THEN v.release[3] ELSE 0

\* The release without its trailing zeros, as the comparison key takes it.
RECURSIVE StripZeros(_)
StripZeros(r) ==
    IF r # <<>> /\ r[Len(r)] = 0 THEN StripZeros(SubSeq(r, 1, Len(r) - 1)) ELSE r

\* The order of the pre-release letters ("a" < "b" < "rc" as strings).
LetterRank(l) == IF l = "a" THEN 1 ELSE IF l = "b" THEN 2 ELSE 3

\* The key sorted(), max() and `<` compare Versions by: epoch, release, then
\* pre (a bare dev release below every pre-release, no pre-release above),
\* post (none below any), dev (none above any).
CmpKey(v) ==
    <<<<v.epoch>>,
      StripZeros(v.release),
      IF v.pre = <<>> /\ v.post = <<>> /\ v.dev # <<>> THEN <<0>>
      ELSE IF v.pre = <<>> THEN <<2>>
      ELSE <<1, LetterRank(v.pre[1]), v.pre[2]>>,
      IF v.post = <<>> THEN <<0>> ELSE <<1, v.post[1]>>,
      IF v.dev = <<>> THEN <<1>> ELSE <<0, v.dev[1]>>>>

\* a < b for tuples of numbers, as Python compares tuples.
TupleLess(a, b) ==
    LET d == {i \in 1..Min(Len(a), Len(b)) : a[i] # b[i]}
    IN  IF d = {} THEN Len(a) < Len(b)
        ELSE LET i == CHOOSE i \in d : \A j \in d : i <= j IN a[i] < b[i]

\* Version.__lt__ and Version.__eq__: both compare the keys.
VersionLess(v, w) ==
    LET d == {i \in 1..5 : CmpKey(v)[i] # CmpKey(w)[i]}
    IN  /\ d # {}
        /\ LET i == CHOOSE i \in d : \A j \in d : i <= j
           IN  TupleLess(CmpKey(v)[i], CmpKey(w)[i])

VersionEq(v, w) == CmpKey(v) = CmpKey(w)

\* sorted(vs): stable, ascending; the last element goes in before the first
\* element that is greater than it.
RECURSIVE sorted(_)
sorted(vs) ==
    IF vs = <<>> THEN <<>>
    ELSE LET s == sorted(SubSeq(vs, 1, Len(vs) - 1))
             x == vs[Len(vs)]
             after == {i \in 1..Len(s) : VersionLess(x, s[i])}
             at == IF after = {} THEN Len(s) + 1
                   ELSE CHOOSE i \in after : \A j \in after : i <= j
         IN  SubSeq(s, 1, at - 1) \o <<x>> \o SubSeq(s, at, Len(s))

\* sorted(vs, reverse=True): stable, descending; the last element goes in
\* before the first element that is less than it.
RECURSIVE sorted_reverse(_)
sorted_reverse(vs) ==
    IF vs = <<>> THEN <<>>
    ELSE LET s == sorted_reverse(SubSeq(vs, 1, Len(vs) - 1))
             x == vs[Len(vs)]
             after == {i \in 1..Len(s) : VersionLess(s[i], x)}
             at == IF after = {} THEN Len(s) + 1
                   ELSE CHOOSE i \in after : \A j \in after : i <= j
         IN  SubSeq(s, 1, at - 1) \o <<x>> \o SubSeq(s, at, Len(s))

\* _Utils.sanitize_pep440: sum((has_pre, has_post, has_dev)) is truthy as
\* soon as one of the three is there, and the call raises; otherwise the
\* text is the epoch (when not 0) and major.minor.micro.
sanitize_pep440(v) ==
    IF v.pre # <<>> \/ v.post # <<>> \/ v.dev # <<>>
    THEN Raise("JmesFunctionError")
    ELSE Ok(VersionText(IF v.epoch # 0 THEN <<v.epoch>> ELSE <<>>,
                        <<major(v), minor(v), micro(v)>>,
                        v.pre, v.post, v.dev))

\* [U.sanitize_pep440(p) for p in ps]: the first call that raises ends it.
SanitizeAll(ps) ==
    IF \E i \in 1..Len(ps) : sanitize_pep440(ps[i]).err # ""
    THEN Raise("JmesFunctionError")
    ELSE Ok([i \in 1..Len(ps) |-> sanitize_pep440(ps[i]).val])

Parsed(versions) == [i \in 1..Len(versions) |-> Pep440(versions[i])]

pep440_ascending(versions) == SanitizeAll(sorted(Parsed(versions)))

pep440_descending(versions) == SanitizeAll(sorted_reverse(Parsed(versions)))

\* The class key keyed by (epoch, major) alone, the 0.x case left out.
class_key_major_only(vr) == <<vr.epoch, major(vr)>>

\* key (cicd/james.py:121): f"{epoch}::{major}", or f"{epoch}::{major}.{minor}"
\* when major is 0; the string is the tuple of its numbers (the separators
\* keep the two forms and the numbers apart).
class_key(vr) ==
    IF major(vr) > 0 THEN <<vr.epoch, major(vr)>>
    ELSE <<vr.epoch, major(vr), minor(vr)>>

\* The loop of _func_best_compatible_pep440 from version i on: best is the
\* dict best_in_class so far, a function from the keys to the Versions.
RECURSIVE best_in_class(_, _, _)
best_in_class(versions, i, best) ==
    IF i > Len(versions) THEN best
    ELSE LET vr == Pep440(versions[i])
             key == class_key(vr)
         IN  best_in_class(versions, i + 1,
                 IF key \notin DOMAIN best \/ VersionLess(best[key], vr)
                 THEN [k \in DOMAIN best \cup {key} |->
                          IF k = key THEN vr ELSE best[k]]
                 ELSE best)

\* TyrannoFunctions._func_best_compatible_pep440: set(best_in_class.values()).
\* Versions kept under different keys differ in epoch or release, so the set
\* drops none of them.
func_best_compatible_pep440(versions) ==
    LET best == best_in_class(versions, 1, <<>>)
    IN  Ok({best[k] : k \in DOMAIN best})

\* The version strings the functions are called with: with and without an
\* epoch, releases written with one, two and three numbers (1 and 1.0.0 are
\* the same version), each as a final, pre-, dev- and post-release.
Epochs == {<<>>, <<1>>}

Releases == {<<0, 1, 0>>, <<0, 2, 0>>, <<1>>, <<1, 0, 0>>, <<1, 5, 0>>, <<2, 0>>}

Suffixes ==
    {[pre |-> <<>>, post |-> <<>>, dev |-> <<>>],
     [pre |-> <<"rc", 1>>, post |-> <<>>, dev |-> <<>>],
     [pre |-> <<>>, post |-> <<>>, dev |-> <<1>>],
     [pre |-> <<>>, post |-> <<1>>, dev |-> <<>>]}

VersionTexts ==
    {VersionText(e, r, x.pre, x.post, x.dev) :
        e \in Epochs, r \in Releases, x \in Suffixes}

VersionInit ==
    /\ IdleHelper
    /\ IdleSyncer
    /\ IdleExpand
    /\ IdleMerge
    /\ IdleTree
    /\ IdleFactory
    /\ IdleFinal
    /\ vin \in SeqUpTo(VersionTexts, MaxVersions)
    /\ vop = ""
    /\ vresult = [err |-> "", val |-> NoKeys]

\* TyrannoJmesFunctions.pep440_ascending(versions)
Pep440Ascending ==
    /\ vop = ""
    /\ vresult' = pep440_ascending(vin)
    /\ vop' = "pep440_ascending"
    /\ UNCHANGED <<helperVars, syncerVars, expandVars, mergeVars, treeVars,
                   factoryVars, finalVars, vin>>

\* TyrannoJmesFunctions.pep440_descending(versions)
Pep440Descending ==
    /\ vop = ""
    /\ vresult' = pep440_descending(vin)
    /\ vop' = "pep440_descending"
    /\ UNCHANGED <<helperVars, syncerVars, expandVars, mergeVars, treeVars,
                   factoryVars, finalVars, vin>>

\* TyrannoFunctions._func_best_compatible_pep440(versions)
BestCompatiblePep440 ==
    /\ vop = ""
    /\ vresult' = func_best_compatible_pep440(vin)
    /\ vop' = "best_compatible_pep440"
    /\ UNCHANGED <<helperVars, syncerVars, expandVars, mergeVars, treeVars,
                   factoryVars, finalVars, vin>>

VersionNext == Pep440Ascending \/ Pep440Descending \/ BestCompatiblePep440

SpecVersions == VersionInit /\ [][VersionNext]_vars

---------------------------------------------------------------------------
(* Claims about the PEP 440 functions (checked under SpecVersions).        *)

\* The sequence out holds the versions of the sequence in, each as often.
SameVersions(in, out) ==
    /\ Len(out) = Len(in)
    /\ \A i \in 1..Len(in) :
           Cardinality({j \in 1..Len(out) : VersionEq(out[j], in[i])})
               = Cardinality({j \in 1..Len(in) : VersionEq(in[j], in[i])})

\* C19: pep440_ascending returns its input versions sorted by the scheme's
\* order (epoch, release, then dev < pre-release < final < post) for every
\* list of valid versions, those with a pre, dev or post segment included,
\* and raises no error.
C19_AscendingSortsAll ==
    vop = "pep440_ascending" =>
        /\ vresult.err = ""
        /\ SameVersions(Parsed(vin), Parsed(vresult.val))
        /\ \A i, j \in 1..Len(vresult.val) :
               i < j => ~VersionLess(Pep440(vresult.val[j]), Pep440(vresult.val[i]))

\* The group of a version: (epoch, major) when major >= 1, and
\* (epoch, major, minor) when major = 0.
GroupOf(v) ==
    IF major(v) >= 1 THEN <<v.epoch, major(v)>>
    ELSE <<v.epoch, major(v), minor(v)>>

\* The versions of the input that fall in the group g.
Members(g) ==
    {Pep440(vin[i]) : i \in {j \in 1..Len(vin) : GroupOf(Pep440(vin[j])) = g}}

Groups == {GroupOf(Pep440(vin[i])) : i \in 1..Len(vin)}

\* C20: the best-version reduction partitions the input by (epoch, major)
\* when major >= 1 and by (epoch, major, minor) when major = 0, and returns
\* exactly one version per group, the maximum of that group; versions with
\* different epochs, or a 0.x and a >= 1 version, never share a group.
C20_OneMaximumPerGroup ==
    vop = "best_compatible_pep440" =>
        /\ vresult.err = ""
        /\ \A r \in vresult.val : r \in Members(GroupOf(r))
        /\ \A g \in Groups :
               /\ Cardinality({r \in vresult.val : GroupOf(r) = g}) = 1
               /\ \A r \in vresult.val : GroupOf(r) = g =>
                      \A v \in Members(g) : ~VersionLess(r, v)
        /\ \A i, j \in 1..Len(vin) :
               LET v == Pep440(vin[i])
                   w == Pep440(vin[j])
               IN  (v.epoch # w.epoch \/ (major(v) = 0) # (major(w) = 0))
                       => Cardinality(vresult.val) >= 2

\* C20 witness: the reduction ran on two 0.x versions of one epoch with
\* different minors and returned both, each the maximum of its own group.
C20_Witness ==
    /\ vop = "best_compatible_pep440"
    /\ Len(vin) = 2
    /\ Pep440(vin[1]).epoch = Pep440(vin[2]).epoch
    /\ major(Pep440(vin[1])) = 0
    /\ major(Pep440(vin[2])) = 0
    /\ minor(Pep440(vin[1])) # minor(Pep440(vin[2]))
    /\ vresult.err = ""
    /\ vresult.val = {Pep440(vin[1]), Pep440(vin[2])}

---------------------------------------------------------------------------
(* The reduction on the versions 0.1.0, 0.2.0, 1.0.0 and 1.5.0             *)
(* (cicd/james.py:116-124), in every order the caller's list can have.     *)

Final(release) == VersionText(<<>>, release, <<>>, <<>>, <<>>)

ExampleVersions ==
    {Final(<<0, 1, 0>>), Final(<<0, 2, 0>>), Final(<<1, 0, 0>>), Final(<<1, 5, 0>>)}

ExampleInit ==
    /\ IdleHelper
    /\ IdleSyncer
    /\ IdleExpand
    /\ IdleMerge
    /\ IdleTree
    /\ IdleFactory
    /\ IdleFinal
    /\ vin \in [1..Cardinality(ExampleVersions) -> ExampleVersions]
    /\ vop = ""
    /\ vresult = [err |-> "", val |-> NoKeys]

SpecExample == ExampleInit /\ [][VersionNext]_vars

\* C21: the best-per-class reduction applied to the version set
\* {0.1.0, 0.2.0, 1.0.0, 1.5.0} yields exactly {0.2.0, 1.5.0}.
C21_ExampleYieldsTwo ==
    (/\ vop = "best_compatible_pep440"
     /\ {vin[i] : i \in 1..Len(vin)} = ExampleVersions)
        => /\ vresult.err = ""
           /\ vresult.val = {Pep440(Final(<<0, 2, 0>>)), Pep440(Final(<<1, 5, 0>>))}

---------------------------------------------------------------------------
(* _Utils.format_dt and _Utils.datetime_to_dict (james.py:210-213,         *)
(* 262-282).  A datetime is its zone, day of the month and hour; a zone is *)
(* the key it was made from, the name tzname() returns (split at "/";      *)
(* <<>> is None, the datetime is naive) and its UTC offset in hours.  A    *)
(* stamp is the record of the parts isoformat writes.                      *)

Zone(key, tzname, offset) == [key |-> key, tzname |-> tzname, offset |-> offset]

\* _Utils.UTC_NAMES
UTC_NAMES == {<<"Etc", "UTC">>, <<"Etc", "Universal">>, <<"Etc", "UCT">>,
              <<"Etc", "Zulu">>}

\* datetime.UTC, the zone of dt.astimezone(UTC)
UTC == Zone("UTC", <<"UTC">>, 0)

\* dt.tzname().removeprefix("Etc/")
removeprefix_Etc(tz) ==
    IF Len(tz) >= 2 /\ tz[1] = "Etc" THEN Tail(tz) ELSE tz

\* The offset as isoformat writes it.
OffsetText(offset) == IF offset = 0 THEN "+00:00" ELSE "+01:00"

\* dt.isoformat(sep, ts)
isoformat(dt, sep, ts) ==
    [day |-> dt.day, sep |-> sep, hour |-> dt.hour, ts |-> ts,
     offset |-> OffsetText(dt.zone.offset)]

\* stamp.replace("+00:00", "Z").replace("-00:00", "Z"): only the offset of a
\* stamp can hold either text.
ReplaceOffset(stamp) ==
    [stamp EXCEPT !.offset = IF @ \in {"+00:00", "-00:00"} THEN "Z" ELSE @]

\* _Utils.format_dt
format_dt(dt, sep, ts) ==
    IF dt.zone.tzname = <<>> THEN Raise("JmesFunctionError")
    ELSE IF removeprefix_Etc(dt.zone.tzname) \in UTC_NAMES
         THEN Ok(ReplaceOffset(isoformat(dt, sep, ts)))
         ELSE Ok(isoformat(dt, sep, ts))

\* dt.astimezone(UTC): the same instant, in datetime.UTC.
astimezone_UTC(dt) ==
    LET hours == dt.day * 24 + dt.hour - dt.zone.offset
    IN  [zone |-> UTC, day |-> hours \div 24, hour |-> hours % 24]

\* _Utils.datetime_to_dict: the fields that format_dt fills, and zone; the
\* first format_dt that raises ends the call.
datetime_to_dict(dt) ==
    IF format_dt(dt, "T", "microseconds").err # ""
    THEN format_dt(dt, "T", "microseconds")
    ELSE Ok([rfc_9557     |-> <<format_dt(dt, "T", "microseconds").val, dt.zone.tzname>>,
             rfc_9557_utc |-> <<format_dt(astimezone_UTC(dt), "T", "microseconds").val,
                                <<"Etc", "UTC">>>>,
             rfc_3339     |-> format_dt(dt, "T", "microseconds").val,
             rfc_3339_utc |-> format_dt(astimezone_UTC(dt), "T", "microseconds").val,
             formatted    |-> format_dt(dt, " ", "seconds").val,
             zone         |-> dt.zone.tzname])

\* The zones of the datetimes: ZoneInfo of the UTC aliases and of zones that
\* are at offset zero without being UTC, datetime.UTC, London in summer,
\* fixed-offset timezones named by hand, and no zone at all.
Zones ==
    {Zone("Etc/UTC", <<"UTC">>, 0), Zone("Etc/Zulu", <<"UTC">>, 0),
     Zone("Etc/UCT", <<"UTC">>, 0), Zone("Etc/Universal", <<"UTC">>, 0),
     UTC,
     Zone("Europe/London", <<"GMT">>, 0), Zone("Europe/London", <<"BST">>, 1),
     Zone("Africa/Abidjan", <<"GMT">>, 0), Zone("Etc/GMT", <<"GMT">>, 0),
     Zone("Etc/UTC", <<"Etc", "UTC">>, 0),
     Zone("Etc/Etc/UTC", <<"Etc", "Etc", "UTC">>, 0),
     Zone("", <<>>, 0)}

Datetimes == [zone : Zones, day : {1, 2}, hour : {0, 23}]

DtInit ==
    /\ IdleHelper
    /\ IdleSyncer
    /\ IdleExpand
    /\ IdleMerge
    /\ IdleTree
    /\ IdleFactory
    /\ IdleVersions
    /\ IdleRegex
    /\ IdleInKey
    /\ IdleDelta
    /\ IdleTransform
    /\ IdleJson
    /\ IdleJobs
    /\ din \in Datetimes
    /\ dsep \in {"T", " "}
    /\ dts \in {"microseconds", "seconds"}
    /\ dop = ""
    /\ dresult = [err |-> "", val |-> NoKeys]

\* U.format_dt(dt, sep=..., ts=...)
FormatDt ==
    /\ dop = ""
    /\ dresult' = format_dt(din, dsep, dts)
    /\ dop' = "format_dt"
    /\ UNCHANGED <<helperVars, syncerVars, expandVars, mergeVars, treeVars,
                   factoryVars, versionVars, regexVars, inkeyVars, deltaVars, transformVars, jsonVars, jobVars,
                   din, dsep, dts>>

\* U.datetime_to_dict(dt)
DatetimeToDict ==
    /\ dop = ""
    /\ dresult' = datetime_to_dict(din)
    /\ dop' = "datetime_to_dict"
    /\ UNCHANGED <<helperVars, syncerVars, expandVars, mergeVars, treeVars,
                   factoryVars, versionVars, regexVars, inkeyVars, deltaVars, transformVars, jsonVars, jobVars,
                   din, dsep, dts>>

DtNext == FormatDt \/ DatetimeToDict

SpecDt == DtInit /\ [][DtNext]_vars

---------------------------------------------------------------------------
(* Claims about format_dt (checked under SpecDt).                          *)

\* The zone keys that are aliases of UTC.
UtcAliases == {"UTC", "Etc/UTC", "Etc/Zulu", "Etc/UCT", "Etc/Universal"}

\* C22: format_dt ends the timestamp with Z if and only if the datetime's
\* zone is a recognized UTC alias: a zero-offset datetime in a UTC-alias
\* zone is formatted with Z instead of +00:00, and a zero-offset datetime in
\* a non-UTC zone keeps its numeric +00:00 offset.
C22_ZedIffUtcAlias ==
    (dop = "format_dt" /\ din.zone.tzname # <<>>) =>
        /\ dresult.err = ""
        /\ dresult.val.offset = "Z" <=> din.zone.key \in UtcAliases
        /\ (din.zone.key \notin UtcAliases /\ din.zone.offset = 0)
               => dresult.val.offset = "+00:00"

---------------------------------------------------------------------------
(* Tokens.inline_regex for a comment profile with an end token             *)
(* (sync.py:39-71).  A line is the sequence of its tokens; "((" and "))"   *)
(* stand for the two bracket characters of the placeholders that           *)
(* _fast_lazy_pattern writes, "T" and "0" are those letters, and no other  *)
(* token holds one of the four.                                            *)

\* get_comment_tokens(): the pairs with an end token.
MultilineProfiles == {[start |-> "<!--", end |-> "-->"], [start |-> "/*", end |-> "*/"]}

\* Tokens._fast_lazy_pattern(end_token) for an end token of two or more
\* characters: the three re.sub results are dropped (sync.py:68-70), so the
\* pattern keeps its placeholders: a character class that excludes the four
\* placeholder characters, or the literal placeholder T0 when the literal
\* placeholder T>=1 does not follow.
fast_lazy_pattern(end_token) ==
    [excluded     |-> {"((", "T", "0", "))"},
     literal      |-> <<"((", "T", "0", "))">>,
     not_followed |-> <<"((", "T", ">=", "1", "))">>]

\* Tokens.inline_regex(comment_start, comment_end) with an end token:
\* ^start\s*::tyranno::(?P<line>capture)end.*$
inline_regex_multiline(comment_start, comment_end) ==
    [start |-> comment_start, capture |-> fast_lazy_pattern(comment_end),
     end |-> comment_end, groups |-> {"line"}]

\* Whether the tokens of `lit` stand in `line` from position p on.
LiteralAt(line, p, lit) ==
    /\ p + Len(lit) - 1 <= Len(line)
    /\ SubSeq(line, p, p + Len(lit) - 1) = lit

\* The end of the longest run of tokens from p on that the character class
\* of the capture takes (p when it takes none): [^...]++ gives nothing back.
RECURSIVE ClassRun(_, _, _)
ClassRun(cap, line, p) ==
    IF p <= Len(line) /\ line[p] \notin cap.excluded
    THEN ClassRun(cap, line, p + 1) ELSE p

\* The positions at which the capture (?:[^...]++|literal(?!not_followed))*
\* can end when it starts at p: after no iteration, or after one iteration
\* and any number of further ones.
RECURSIVE CaptureEnds(_, _, _)
CaptureEnds(cap, line, p) ==
    LET q == ClassRun(cap, line, p)
        r == p + Len(cap.literal)
    IN  IF q > p THEN {p} \cup CaptureEnds(cap, line, q)
        ELSE IF LiteralAt(line, p, cap.literal) /\ ~LiteralAt(line, r, cap.not_followed)
             THEN {p} \cup CaptureEnds(cap, line, r)
        ELSE {p}

\* pattern.fullmatch(line) and m.group("line") for a pattern with an end
\* token: the capture is the longest one after which the end token stands;
\* .* takes the rest of the line.
fullmatch_multiline(pat, line) ==
    LET j == SkipWs(line, 2)
        ends == IF Len(line) >= 2 /\ line[1] = pat.start
                   /\ j <= Len(line) /\ line[j] = tyranno_inline
                THEN {e \in CaptureEnds(pat.capture, line, j + 1) :
                         e <= Len(line) /\ line[e] = pat.end}
                ELSE {}
    IN  IF ends = {} THEN [matched |-> FALSE, line |-> <<>>]
        ELSE LET e == CHOOSE e \in ends : \A f \in ends : f <= e
             IN  [matched |-> TRUE, line |-> SubSeq(line, j + 1, e - 1)]

\* The tokens of the expression text of a line.
ExprTokens == {" ", "abc", "T", "0", "((", "))"}

\* What follows the expression text: nothing, the end token, the end token
\* and trailing text.
Trailing(end) == {<<>>, <<end>>, <<end, " ", "x">>, <<end, "x", end>>}

RegexInit ==
    /\ IdleHelper
    /\ IdleSyncer
    /\ IdleExpand
    /\ IdleMerge
    /\ IdleTree
    /\ IdleFactory
    /\ IdleVersions
    /\ IdleDt
    /\ IdleInKey
    /\ IdleDelta
    /\ IdleTransform
    /\ IdleJson
    /\ IdleJobs
    /\ rprofile \in MultilineProfiles
    /\ rexpr \in SeqUpTo(ExprTokens, MaxExpr)
    /\ \E ws \in {<<>>, <<" ">>} : \E tail \in Trailing(rprofile.end) :
           rline = <<rprofile.start>> \o ws \o <<tyranno_inline>> \o rexpr \o tail
    /\ rop = ""
    /\ rresult = [matched |-> FALSE, line |-> <<>>]

\* TOKENS.inline_regex(start, end).fullmatch(line)
InlineRegexFullmatch ==
    /\ rop = ""
    /\ rresult' = fullmatch_multiline(
                      inline_regex_multiline(rprofile.start, rprofile.end), rline)
    /\ rop' = "fullmatch"
    /\ UNCHANGED <<helperVars, syncerVars, expandVars, mergeVars, treeVars,
                   factoryVars, versionVars, dtVars, inkeyVars, deltaVars, transformVars, jsonVars, jobVars,
                   rprofile, rline, rexpr>>

RegexNext == InlineRegexFullmatch

SpecRegex == RegexInit /\ [][RegexNext]_vars

---------------------------------------------------------------------------
(* Claims about the pattern with an end token (checked under SpecRegex).   *)

\* The line is start token, optional whitespace, ::tyranno::, the
\* expression text, the end token and any trailing text.
HasEndToken ==
    \E ws \in {<<>>, <<" ">>} : \E tail \in Trailing(rprofile.end) \ {<<>>} :
        rline = <<rprofile.start>> \o ws \o <<tyranno_inline>> \o rexpr \o tail

\* C23: for a comment profile with an end token, inline_regex matches a
\* line of the form start token, optional whitespace, ::tyranno::,
\* expression text, end token, trailing text; the captured template is the
\* expression text up to the first end token, and trailing text after the
\* end token does not prevent the match.
C23_EndTokenLineMatches ==
    (rop = "fullmatch" /\ HasEndToken) =>
        /\ rresult.matched
        /\ rresult.line = rexpr

---------------------------------------------------------------------------
(* Data.expand_var with a current key (context.py:54-62), for every tree   *)
(* of KeyedTrees, every key of InKeys and every expression of Expressions. *)

\* Trees in which "a" and "0" are absent, a leaf or a branch with at most
\* the key "b" ("0" is a key Checker.key_pattern accepts).
KeyedTrees ==
    LET subs == {Dict(d) : d \in DictsOver({K("b")}, {StrLeaf("x")})}
    IN  DictsOver({K("a"), K("0")}, {StrLeaf("y")} \cup subs)

\* in_key: "", "a", "0", "a.b"
InKeys == {<<>>, <<Seg("a")>>, <<Seg("0")>>, <<Seg("a"), Seg("b")>>}

\* expression: .b  b  a.b  0.b  "a".b  ~.b  .b.b  a
Expressions ==
    {<<Seg(""), Seg("b")>>, <<Seg("b")>>, <<Seg("a"), Seg("b")>>,
     <<Seg("0"), Seg("b")>>, <<QSeg("a"), Seg("b")>>, <<Seg("~"), Seg("b")>>,
     <<Seg(""), Seg("b"), Seg("b")>>, <<Seg("a")>>}

InKeyInit ==
    /\ IdleHelper
    /\ IdleSyncer
    /\ IdleExpand
    /\ IdleMerge
    /\ IdleTree
    /\ IdleFactory
    /\ IdleVersions
    /\ IdleDt
    /\ IdleRegex
    /\ IdleDelta
    /\ IdleTransform
    /\ IdleJson
    /\ IdleJobs
    /\ ktree \in KeyedTrees
    /\ kkey \in InKeys
    /\ kexpr \in Expressions
    /\ kop = ""
    /\ kresult = [err |-> "", val |-> NoKeys]

\* data.expand_var(expression, in_key=in_key)
ExpandVarInKey ==
    /\ kop = ""
    /\ kresult' = expand_var_in_key(ktree, kexpr, kkey)
    /\ kop' = "expand_var"
    /\ UNCHANGED <<helperVars, syncerVars, expandVars, mergeVars, treeVars,
                   factoryVars, versionVars, dtVars, regexVars, deltaVars, transformVars, jsonVars, jobVars,
                   ktree, kkey, kexpr>>

InKeyNext == ExpandVarInKey

SpecInKey == InKeyInit /\ [][InKeyNext]_vars

---------------------------------------------------------------------------
(* Claims about expand_var with a current key (checked under SpecInKey).   *)

\* The expression is a simple dotted path: identifiers joined by dots.
SimplePath(expression) ==
    /\ expression # <<>>
    /\ \A i \in 1..Len(expression) :
           ~expression[i].q /\ expression[i].name \in Identifiers

\* C24: expand_var resolves a simple dotted identifier path by direct tree
\* access: with a non-empty current key K and an expression .P (a leading
\* dot and a simple dotted path P) it returns tree.access(K + "." + P), and
\* with a simple dotted path without a leading dot it returns
\* tree.access(expression); the query evaluator is used in neither case.
C24_SimplePathIsAccess ==
    kop = "expand_var" =>
        /\ (/\ kkey # <<>>
            /\ Len(kexpr) >= 2
            /\ kexpr[1] = Seg("")
            /\ SimplePath(Tail(kexpr)))
               => kresult = access(ktree, ExprPath(kkey \o Tail(kexpr)))
        /\ SimplePath(kexpr) => kresult = access(ktree, ExprPath(kexpr))

---------------------------------------------------------------------------
(* DeltaBlock.n_lines_differ and the summary of Syncer._log                *)
(* (sync.py:127-150, 253-264), for every list of up to MaxHits blocks of   *)
(* up to MaxBlockLines lines.                                              *)

\* DeltaBlock.__len__
len(block) == Len(block.templates)

\* DeltaBlock.n_lines_differ: sum(i == j for i, j in zip(old, new)); zip
\* stops at the shorter list.
n_lines_differ(block) ==
    Cardinality({i \in 1..Min(Len(block.old_lines), Len(block.new_lines)) :
                    block.old_lines[i] = block.new_lines[i]})

\* sum(f(hit) for hit in hits)
RECURSIVE SumOver(_, _)
SumOver(f(_), hs) ==
    IF hs = <<>> THEN 0
    ELSE f(hs[1]) + SumOver(f, Tail(hs))

\* The numbers Syncer._log hands to logger.info.
log(hs) ==
    [changed |-> SumOver(n_lines_differ, hs),
     covered |-> SumOver(len, hs),
     blocks  |-> Len(hs)]

\* The blocks SyncHelper makes: as many old and new lines as templates.
Blocks ==
    UNION {{DeltaBlock("inline", n, [i \in 1..n |-> <<"v=">>], old, new) :
               old \in [1..n -> {<<"x">>, <<"y">>}],
               new \in [1..n -> {<<"x">>, <<"y">>}]} : n \in 1..MaxBlockLines}

DeltaInit ==
    /\ IdleHelper
    /\ IdleSyncer
    /\ IdleExpand
    /\ IdleMerge
    /\ IdleTree
    /\ IdleFactory
    /\ IdleVersions
    /\ IdleDt
    /\ IdleRegex
    /\ IdleInKey
    /\ IdleTransform
    /\ IdleJson
    /\ IdleJobs
    /\ bhits \in SeqUpTo(Blocks, MaxHits)
    /\ bop = ""
    /\ bresult = [changed |-> 0, covered |-> 0, blocks |-> 0]

\* Syncer._log(path, hits)
Log ==
    /\ bop = ""
    /\ bresult' = log(bhits)
    /\ bop' = "log"
    /\ UNCHANGED <<helperVars, syncerVars, expandVars, mergeVars, treeVars,
                   factoryVars, versionVars, dtVars, regexVars, inkeyVars, transformVars, jsonVars, jobVars, bhits>>

DeltaNext == Log

SpecDelta == DeltaInit /\ [][DeltaNext]_vars

---------------------------------------------------------------------------
(* Claims about the summary (checked under SpecDelta).                     *)

\* The number of positions at which the old and the new line differ.
Differing(block) ==
    Cardinality({i \in 1..Len(block.new_lines) :
                    block.old_lines[i] # block.new_lines[i]})

\* C25: the "lines changed" count of the summary is correct:
\* n_lines_differ is the number of positions at which old_lines and
\* new_lines differ (0 for a block whose new lines equal the old ones,
\* len(block) when every line changed), and the summary sums it over the
\* blocks, with the number of covered lines and the number of blocks.
C25_LinesChangedCounted ==
    bop = "log" =>
        /\ bresult.changed = SumOver(Differing, bhits)
        /\ bresult.covered = SumOver(len, bhits)
        /\ bresult.blocks = Len(bhits)

---------------------------------------------------------------------------
(* DotTree.transform_leaves (dot_tree.py:386-401), for every tree of       *)
(* TransformTrees and every function of LeafFunctions.                     *)

\* fn(k, v) for the functions of the model: the function that returns v,
\* the one that returns None and the one that returns "z".
Apply(fn, k, v) ==
    CASE fn = "identity" -> v
      [] fn = "none"     -> NoneVal
      [] fn = "const"    -> StrLeaf("z")

LeafFunctions == {"identity", "none", "const"}

\* {k: fn(k, v) for k, v in keys}: `keys` are the keys of self.leaves(), each
\* the sequence of its characters, and k, v are the two characters that the
\* unpacking of a key gives.
RECURSIVE TransformFrom(_, _, _, _)
TransformFrom(x, keys, i, fn) ==
    IF i > Len(keys) THEN x
    ELSE TransformFrom(SetItem(x, K(keys[i][1]),
                               Apply(fn, keys[i][1], StrLeaf(keys[i][2]))),
                       keys, i + 1, fn)

\* DotTree.transform_leaves(fn): iterating the dict self.leaves() gives its
\* keys, and `for k, v in` unpacks each key, a str; a key that is not two
\* characters long raises ValueError.
transform_leaves(raw, fn) ==
    LET lv   == leaves(raw)
        keys == [i \in 1..Len(lv) |-> JoinDot(lv[i].k)]
        x    == TransformFrom(<<>>, keys, 1, fn)
    IN  IF \E i \in 1..Len(keys) : Len(keys[i]) # 2
        THEN Raise("ValueError")
        ELSE from_dotted(SelectSeq(x, LAMBDA it : it.v # NoneVal))

\* Trees in which "a" and "cd" are absent, a leaf or a branch with at most
\* the key "b".
TransformTrees ==
    LET subs == {Dict(d) : d \in DictsOver({K("b")}, Leaves)}
    IN  DictsOver({K("a"), K("cd")}, Leaves \cup subs)

TransformInit ==
    /\ IdleHelper
    /\ IdleSyncer
    /\ IdleExpand
    /\ IdleMerge
    /\ IdleTree
    /\ IdleFactory
    /\ IdleVersions
    /\ IdleDt
    /\ IdleRegex
    /\ IdleInKey
    /\ IdleDelta
    /\ IdleJson
    /\ IdleJobs
    /\ xtree \in TransformTrees
    /\ xfn \in LeafFunctions
    /\ xorig = xtree
    /\ xop = ""
    /\ xresult = [err |-> "", val |-> NoKeys]

\* tree.transform_leaves(fn); self._raw is read only.
TransformLeaves ==
    /\ xop = ""
    /\ xresult' = transform_leaves(xtree, xfn)
    /\ xop' = "transform_leaves"
    /\ UNCHANGED <<helperVars, syncerVars, expandVars, mergeVars, treeVars,
                   factoryVars, versionVars, dtVars, regexVars, inkeyVars,
                   deltaVars, jsonVars, jobVars, xtree, xfn, xorig>>

TransformNext == TransformLeaves

SpecTransform == TransformInit /\ [][TransformNext]_vars

---------------------------------------------------------------------------
(* Claims about transform_leaves (checked under SpecTransform).            *)

\* The leaves fn(path, leaf) of the leaves of the tree, those for which fn
\* returns None left out.
Transformed(raw, fn) ==
    LET lv == leaves(raw)
        x  == [i \in 1..Len(lv) |-> [k |-> lv[i].k, v |-> Apply(fn, lv[i].k, lv[i].v)]]
    IN  SelectSeq(x, LAMBDA it : it.v # NoneVal)

\* C26: transform_leaves(fn) calls fn(path, leaf) for every leaf of the tree
\* and returns a new tree built from the results, the leaves for which fn
\* returns None dropped; with the identity function the result equals
\* normalize(), and the tree it was called on is left unchanged.
C26_TransformLeavesMapsLeaves ==
    xop = "transform_leaves" =>
        /\ xresult = from_dotted(Transformed(xorig, xfn))
        /\ xfn = "identity" => xresult = normalize(xorig)
        /\ xtree = xorig

---------------------------------------------------------------------------
(* _JsonUtil.encode and _JsonUtil.decode (_core.py:29-41).                 *)
(*                                                                         *)
(* A Json value is a record [t, s, n, l, d]: t is its Python type, s the   *)
(* characters of a str or the repr of a float, n the value of an int, l    *)
(* the items of a list and d the [k, v] items of a dict in insertion       *)
(* order.                                                                  *)
(* A text is the sequence of its tokens: one token per character of a      *)
(* string literal and per digit, one per float literal, one per keyword    *)
(* and per punctuation mark, and WS for a run of the white space that      *)
(* indent=2 writes.                                                        *)

JNull == [t |-> "null", s |-> <<>>, n |-> 0, l |-> <<>>, d |-> <<>>]
JTrue == [t |-> "true", s |-> <<>>, n |-> 0, l |-> <<>>, d |-> <<>>]
JFalse == [t |-> "false", s |-> <<>>, n |-> 0, l |-> <<>>, d |-> <<>>]
JInt(k) == [t |-> "int", s |-> <<>>, n |-> k, l |-> <<>>, d |-> <<>>]
JFloat(r) == [t |-> "float", s |-> <<r>>, n |-> 0, l |-> <<>>, d |-> <<>>]
JStr(cs) == [t |-> "str", s |-> cs, n |-> 0, l |-> <<>>, d |-> <<>>]
JList(vs) == [t |-> "list", s |-> <<>>, n |-> 0, l |-> vs, d |-> <<>>]
JDict(its) == [t |-> "dict", s |-> <<>>, n |-> 0, l |-> <<>>, d |-> its]

JRaise(e) == [err |-> e, val |-> JNull]

WS == " "

DigitTokens == <<"0", "1", "2", "3", "4", "5", "6", "7", "8", "9">>

\* float.__repr__ of the floats that are not finite.
NonFinite == {"nan", "inf", "-inf"}

\* The constants json.loads hands to parse_constant.
JsonConstants == {"NaN", "Infinity", "-Infinity"}

\* int.__repr__: the decimal digits of a natural number.
RECURSIVE Digits(_)
Digits(k) ==
    IF k < 10 THEN <<DigitTokens[k + 1]>>
    ELSE Digits(k \div 10) \o <<DigitTokens[(k % 10) + 1]>>

int_repr(k) == IF k < 0 THEN <<"-">> \o Digits(0 - k) ELSE Digits(k)

\* json.encoder.py_encode_basestring (ensure_ascii=False): the quote, the
\* backslash and the control characters are escaped.
escape_verbatim(c) == <<c>>

escape(c) ==
    CASE c = "\"" -> <<"\\", "\"">>
      [] c = "\\" -> <<"\\", "\\">>
      [] c = "\n" -> <<"\\", "n">>
      [] OTHER -> <<c>>

RECURSIVE EscapeAll(_)
EscapeAll(cs) ==
    IF cs = <<>> THEN <<>> ELSE escape(Head(cs)) \o EscapeAll(Tail(cs))

encode_basestring(cs) == <<"\"">> \o EscapeAll(cs) \o <<"\"">>

\* allow_nan=False: a float that is not finite anywhere in the value.
RECURSIVE HasNonFinite(_)
HasNonFinite(x) ==
    CASE x.t = "float" -> x.s[1] \in NonFinite
      [] x.t = "list" -> \E i \in 1..Len(x.l) : HasNonFinite(x.l[i])
      [] x.t = "dict" -> \E i \in 1..Len(x.d) : HasNonFinite(x.d[i].v)
      [] OTHER -> FALSE

\* json.dumps(data, ensure_ascii=False, indent=2): the text of a value.
RECURSIVE dumps(_)
RECURSIVE dumps_list(_)
RECURSIVE dumps_dict(_)
dumps_list(vs) ==
    IF Len(vs) = 1 THEN dumps(vs[1])
    ELSE dumps(Head(vs)) \o <<",", WS>> \o dumps_list(Tail(vs))

dumps_dict(its) ==
    LET item == encode_basestring(Head(its).k) \o <<":", WS>> \o dumps(Head(its).v)
    IN  IF Len(its) = 1 THEN item
        ELSE item \o <<",", WS>> \o dumps_dict(Tail(its))

dumps(x) ==
    CASE x.t = "null" -> <<"null">>
      [] x.t = "true" -> <<"true">>
      [] x.t = "false" -> <<"false">>
      [] x.t = "int" -> int_repr(x.n)
      [] x.t = "float" -> <<x.s[1]>>
      [] x.t = "str" -> encode_basestring(x.s)
      [] x.t = "list" ->
            IF x.l = <<>> THEN <<"[", "]">>
            ELSE <<"[", WS>> \o dumps_list(x.l) \o <<WS, "]">>
      [] x.t = "dict" ->
            IF x.d = <<>> THEN <<"{", "}">>
            ELSE <<"{", WS>> \o dumps_dict(x.d) \o <<WS, "}">>

\* _JsonUtil.encode(data)
encode(data) ==
    IF HasNonFinite(data) THEN [err |-> "ValueError", val |-> <<>>]
    ELSE [err |-> "", val |-> dumps(data)]

\* What a scanner returns: an error, or a value and the position after it.
Scanned(e, val, nx) == [err |-> e, val |-> val, next |-> nx]

DecodeError(at) == Scanned("JSONDecodeError", JNull, at)

RECURSIVE skip_ws(_, _)
skip_ws(text, at) ==
    IF at <= Len(text) /\ text[at] = WS THEN skip_ws(text, at + 1) ELSE at

\* json.decoder.py_scanstring, from the character after the opening quote.
RECURSIVE scanstring(_, _, _)
scanstring(text, at, acc) ==
    IF at > Len(text) THEN DecodeError(at)
    ELSE IF text[at] = "\"" THEN Scanned("", JStr(acc), at + 1)
    ELSE IF text[at] = "\\" THEN
        IF at + 1 > Len(text) THEN DecodeError(at)
        ELSE IF text[at + 1] \in {"\"", "\\"}
             THEN scanstring(text, at + 2, Append(acc, text[at + 1]))
        ELSE IF text[at + 1] = "n" THEN scanstring(text, at + 2, Append(acc, "\n"))
        ELSE DecodeError(at)
    ELSE IF text[at] = "\n" THEN DecodeError(at)
    ELSE scanstring(text, at + 1, Append(acc, text[at]))

IsDigit(c) == \E k \in 1..Len(DigitTokens) : DigitTokens[k] = c

DigitValue(c) == (CHOOSE k \in 1..Len(DigitTokens) : DigitTokens[k] = c) - 1

\* The digits of an integer literal, from its first digit.
RECURSIVE scan_digits(_, _, _)
scan_digits(text, at, acc) ==
    IF at <= Len(text) /\ IsDigit(text[at])
    THEN scan_digits(text, at + 1, acc * 10 + DigitValue(text[at]))
    ELSE [n |-> acc, next |-> at]

IsFloatLiteral(tok) ==
    /\ tok \notin NonFinite
    /\ \E i \in 1..Len(tok) : SubSeq(tok, i, i) \in {".", "e"}

\* dict[key] = value while an object is read: a key read twice keeps its
\* place and takes the later value.
DictPut(its, k, val) ==
    IF \E i \in 1..Len(its) : its[i].k = k
    THEN [i \in 1..Len(its) |-> IF its[i].k = k THEN [k |-> k, v |-> val] ELSE its[i]]
    ELSE Append(its, [k |-> k, v |-> val])

\* json.scanner.py_make_scanner._scan_once, JSONArray and JSONObject.
\* parse_constant is _JsonUtil._parse_const, which raises ValueError.
RECURSIVE scan_once(_, _)
RECURSIVE JSONArray(_, _, _)
RECURSIVE JSONObject(_, _, _)
JSONArray(text, at, acc) ==
    LET el == scan_once(text, skip_ws(text, at))
        nx == skip_ws(text, el.next)
    IN  IF el.err # "" THEN el
        ELSE IF nx > Len(text) THEN DecodeError(nx)
        ELSE IF text[nx] = "]" THEN Scanned("", JList(Append(acc, el.val)), nx + 1)
        ELSE IF text[nx] = "," THEN JSONArray(text, nx + 1, Append(acc, el.val))
        ELSE DecodeError(nx)

JSONObject(text, at, acc) ==
    LET kq == skip_ws(text, at)
    IN  IF kq > Len(text) \/ text[kq] # "\"" THEN DecodeError(kq)
        ELSE
        LET ks == scanstring(text, kq + 1, <<>>)
            co == skip_ws(text, ks.next)
        IN  IF ks.err # "" THEN ks
            ELSE IF co > Len(text) \/ text[co] # ":" THEN DecodeError(co)
            ELSE
            LET el == scan_once(text, skip_ws(text, co + 1))
                nx == skip_ws(text, el.next)
                put == DictPut(acc, ks.val.s, el.val)
            IN  IF el.err # "" THEN el
                ELSE IF nx > Len(text) THEN DecodeError(nx)
                ELSE IF text[nx] = "}" THEN Scanned("", JDict(put), nx + 1)
                ELSE IF text[nx] = "," THEN JSONObject(text, nx + 1, put)
                ELSE DecodeError(nx)

scan_once(text, at) ==
    IF at > Len(text) THEN DecodeError(at)
    ELSE IF text[at] = "\"" THEN scanstring(text, at + 1, <<>>)
    ELSE IF text[at] = "{" THEN
        LET nx == skip_ws(text, at + 1)
        IN  IF nx <= Len(text) /\ text[nx] = "}" THEN Scanned("", JDict(<<>>), nx + 1)
            ELSE JSONObject(text, nx, <<>>)
    ELSE IF text[at] = "[" THEN
        LET nx == skip_ws(text, at + 1)
        IN  IF nx <= Len(text) /\ text[nx] = "]" THEN Scanned("", JList(<<>>), nx + 1)
            ELSE JSONArray(text, nx, <<>>)
    ELSE IF text[at] = "null" THEN Scanned("", JNull, at + 1)
    ELSE IF text[at] = "true" THEN Scanned("", JTrue, at + 1)
    ELSE IF text[at] = "false" THEN Scanned("", JFalse, at + 1)
    ELSE IF text[at] \in JsonConstants THEN Scanned("ValueError", JNull, at)
    ELSE IF IsDigit(text[at]) THEN
        LET num == scan_digits(text, at, 0)
        IN  Scanned("", JInt(num.n), num.next)
    ELSE IF text[at] = "-" /\ at < Len(text) /\ IsDigit(text[at + 1]) THEN
        LET num == scan_digits(text, at + 1, 0)
        IN  Scanned("", JInt(0 - num.n), num.next)
    ELSE IF IsFloatLiteral(text[at]) THEN Scanned("", JFloat(text[at]), at + 1)
    ELSE DecodeError(at)

\* _JsonUtil.decode(data): json.loads, which reads one value and then
\* allows nothing but white space.
decode(text) ==
    LET obj == scan_once(text, skip_ws(text, 1))
    IN  IF obj.err # "" THEN JRaise(obj.err)
        ELSE IF skip_ws(text, obj.next) <= Len(text) THEN JRaise("JSONDecodeError")
        ELSE [err |-> "", val |-> obj.val]

\* The values the calls are made with: the scalars, and lists and dicts
\* of at most two items nested MaxNesting deep.  The second item of a
\* list or dict is one of JsonSeconds.
JsonScalars ==
    { JNull, JTrue, JFalse, JInt(0), JInt(0 - 12), JFloat("1.5"), JFloat("nan"),
      JStr(<<"a">>), JStr(<<"\"", "\\", "\n">>) }

JsonSeconds == { JInt(0 - 12), JStr(<<"\"", "\\", "\n">>) }

JsonKeys == { <<"a">>, <<"\"">> }

ListsOf(V) ==
    {<<>>} \cup {<<a>> : a \in V} \cup {<<a, b>> : a \in V, b \in JsonSeconds}

ItemsOf(V) ==
    {<<>>} \cup {<<[k |-> k, v |-> a]>> : k \in JsonKeys, a \in V}
           \cup {<<[k |-> k, v |-> a], [k |-> CHOOSE o \in JsonKeys : o # k, v |-> b]>> :
                    k \in JsonKeys, a \in V, b \in JsonSeconds}

RECURSIVE JsonValues(_)
JsonValues(depth) ==
    IF depth = 0 THEN JsonScalars
    ELSE LET V == JsonValues(depth - 1)
         IN  V \cup {JList(vs) : vs \in ListsOf(V)}
               \cup {JDict(its) : its \in ItemsOf(V)}

JsonInit ==
    /\ IdleHelper
    /\ IdleSyncer
    /\ IdleExpand
    /\ IdleMerge
    /\ IdleTree
    /\ IdleFactory
    /\ IdleVersions
    /\ IdleDt
    /\ IdleRegex
    /\ IdleInKey
    /\ IdleDelta
    /\ IdleTransform
    /\ IdleJobs
    /\ jx \in JsonValues(MaxNesting)
    /\ jtext = [err |-> "", val |-> <<>>]
    /\ jy = [err |-> "", val |-> JNull]
    /\ jop = ""

\* text = JSON.encode(x)
JsonEncode ==
    /\ jop = ""
    /\ jtext' = encode(jx)
    /\ jop' = "encode"
    /\ UNCHANGED <<helperVars, syncerVars, expandVars, mergeVars, treeVars,
                   factoryVars, versionVars, dtVars, regexVars, inkeyVars,
                   deltaVars, transformVars, jobVars, jx, jy>>

\* y = JSON.decode(text), of the text encode returned
JsonDecode ==
    /\ jop = "encode"
    /\ jtext.err = ""
    /\ jy' = decode(jtext.val)
    /\ jop' = "decode"
    /\ UNCHANGED <<helperVars, syncerVars, expandVars, mergeVars, treeVars,
                   factoryVars, versionVars, dtVars, regexVars, inkeyVars,
                   deltaVars, transformVars, jobVars, jx, jtext>>

JsonNext == JsonEncode \/ JsonDecode

SpecJson == JsonInit /\ [][JsonNext]_vars

---------------------------------------------------------------------------
(* Claims about the JSON wrapper (checked under SpecJson).                 *)

\* C27: for every JSON value x (strings, integers, finite floats,
\* booleans, null, and lists and string-keyed objects of these),
\* JSON.decode(JSON.encode(x)) returns a value equal to x.
C27_DecodeEncodedIsSame ==
    (jop = "decode" /\ ~HasNonFinite(jx)) =>
        /\ jy.err = ""
        /\ jy.val.t = jx.t
        /\ jy.val = jx

\* C27 witness: an object whose key is a quote and whose value is a list
\* of a float and a string of a quote, a backslash and a newline came back
\* from the round trip.
C27_Witness ==
    /\ jop = "decode"
    /\ jx = JDict(<<[k |-> <<"\"">>,
                    v |-> JList(<<JFloat("1.5"), JStr(<<"\"", "\\", "\n">>)>>)]>>)
    /\ jy = [err |-> "", val |-> jx]

---------------------------------------------------------------------------
(* Two syncs of one file in a row: run_on(path), then run_on(path) on      *)
(* what the first call wrote.  The file holds any lines up to MaxWrite.    *)

ResyncLines == SeqUpTo(LineAlphabet \cup {<<>>}, MaxWrite)

ResyncInit ==
    /\ IdleHelper
    /\ IdleExpand
    /\ IdleMerge
    /\ IdleRest
    /\ backup \in BOOLEAN
    /\ \E p \in RepoFiles : targets = <<p, p>>
    /\ \E lines \in ResyncLines :
           fs = [q \in {Resolve(r) : r \in RepoFiles} |->
                    IF q = Resolve(targets[1]) THEN JoinLines(lines) ELSE TextPlain]
    /\ idx = 1
    /\ wlines = <<>>
    /\ spc = "run_on"
    /\ pending = ""
    /\ serr = ""
    /\ raised_in = ""
    /\ orig = fs
    /\ before = fs
    /\ write_entered = FALSE

SpecResync == ResyncInit /\ [][SyncerNext]_vars

---------------------------------------------------------------------------
(* Claims about a second sync (checked under SpecResync).                  *)

\* The second run_on has written and reached _log.
SecondSynced == idx = 2 /\ spc \in {"log", "done"}

\* C28: running SyncHelper.run on the output of a previous run produces
\* the same line sequence again: the second sync of a file leaves the
\* text the first sync wrote, and reports zero changed lines.
C28_SecondSyncSame ==
    SecondSynced =>
        /\ new_lines = HelperRun(orig, CurPath).new_lines
        /\ JoinLines(new_lines) = before[Target]
        /\ fs[Target] = before[Target]
        /\ log(hits).changed = 0

\* C28 witness: a file of two lines, a marker line among them, was synced
\* twice, each sync wrote it, and the second left it as the first did.
C28_Witness ==
    /\ SecondSynced
    /\ Len(splitlines(orig[Target])) = 2
    /\ \E i \in 1..Len(splitlines(orig[Target])) :
          fullmatch(pattern, splitlines(orig[Target])[i]).matched
    /\ write_entered
    /\ fs[Target] = before[Target]

---------------------------------------------------------------------------
(* JobManager and the routes POST /tasks, GET /tasks/{job_id} and          *)
(* GET /tasks (api/server.py:48-124).  The routes and put() are            *)
(* coroutines of one event loop: a coroutine runs without interruption     *)
(* from one await that suspends it to the next.  put() suspends once, in   *)
(* asyncio.sleep; the background task of a response is started after the   *)
(* response has been sent.                                                 *)

\* The job ids Job.new draws (secrets.token_urlsafe(16)): each one new.
JobIds == 1..MaxJobs

\* The `message` query parameter of POST /tasks.
Messages == {"", "hello", "bye"}

\* The JobManager with the given _running and _results.
JobManager(rn, rs) == [running |-> rn, results |-> rs]

manager == JobManager(running, results)

\* JobManager.put up to its await: _running.add(job_id).
put_start(mgr, job_id) == [mgr EXCEPT !.running = @ \cup {job_id}]

\* A put whose second part stores the result and leaves _running alone.
put_finish_still_running(mgr, job_id, message) ==
    [mgr EXCEPT !.results = [q \in DOMAIN @ \cup {job_id} |->
                                IF q = job_id THEN message ELSE @[q]]]

\* JobManager.put after its await: _running.remove(job_id) and
\* _results[job_id] = message.
put_finish(mgr, job_id, message) ==
    [mgr EXCEPT !.running = @ \ {job_id},
                !.results = [q \in DOMAIN @ \cup {job_id} |->
                                IF q = job_id THEN message ELSE @[q]]]

\* JobManager.has
has(mgr, job_id) == job_id \in mgr.running \/ job_id \in DOMAIN mgr.results

\* JobManager.is_ready
is_ready(mgr, job_id) == job_id \in DOMAIN mgr.results

\* JobManager.get
manager_get(mgr, job_id) == mgr.results[job_id]

\* JobManager.all_done
all_done(mgr) == mgr.results

Reply(route, job_id, code, body, pc, listed) ==
    [route |-> route, id |-> job_id, code |-> code, body |-> body, pc |-> pc,
     listed |-> listed]

\* get_task(job_id): the status code and the body of the answer.
get_task(mgr, job_id) ==
    IF ~has(mgr, job_id) THEN [code |-> 404, body |-> "Job not found"]
    ELSE IF ~is_ready(mgr, job_id)
         THEN [code |-> 202, body |-> "Job still processing.  Retry later."]
    ELSE [code |-> 200, body |-> manager_get(mgr, job_id)]

JobsInit ==
    /\ IdleHelper
    /\ IdleSyncer
    /\ IdleExpand
    /\ IdleMerge
    /\ IdleTree
    /\ IdleFactory
    /\ IdleVersions
    /\ IdleDt
    /\ IdleRegex
    /\ IdleInKey
    /\ IdleDelta
    /\ IdleTransform
    /\ IdleJson
    /\ running = {}
    /\ results = <<>>
    /\ job_pc = [job_id \in JobIds |-> ""]
    /\ job_message = [job_id \in JobIds |-> ""]
    /\ reply = Reply("", 0, 0, "", "", <<>>)

\* POST /tasks with an empty message: 400.
CreateTaskEmpty ==
    /\ reply' = Reply("create_task", 0, 400, "Message payload cannot be empty.", "", <<>>)
    /\ UNCHANGED <<helperVars, syncerVars, expandVars, mergeVars, treeVars,
                   factoryVars, versionVars, dtVars, regexVars, inkeyVars,
                   deltaVars, transformVars, jsonVars,
                   running, results, job_pc, job_message>>

\* POST /tasks: create_task draws a job id, adds manager.put(job.id, message)
\* to the background tasks of the response and returns the job.
CreateTask ==
    /\ \E message \in Messages \ {""}, job_id \in JobIds :
          /\ job_pc[job_id] = ""
          /\ job_pc' = [job_pc EXCEPT ![job_id] = "created"]
          /\ job_message' = [job_message EXCEPT ![job_id] = message]
          /\ reply' = Reply("create_task", job_id, 202, "", "", <<>>)
    /\ UNCHANGED <<helperVars, syncerVars, expandVars, mergeVars, treeVars,
                   factoryVars, versionVars, dtVars, regexVars, inkeyVars,
                   deltaVars, transformVars, jsonVars, running, results>>

\* The response of create_task is sent: the client holds the job id.
SendResponse ==
    /\ \E job_id \in JobIds :
          /\ job_pc[job_id] = "created"
          /\ job_pc' = [job_pc EXCEPT ![job_id] = "sent"]
    /\ UNCHANGED <<helperVars, syncerVars, expandVars, mergeVars, treeVars,
                   factoryVars, versionVars, dtVars, regexVars, inkeyVars,
                   deltaVars, transformVars, jsonVars,
                   running, results, job_message, reply>>

\* The background task starts: put runs up to `await asyncio.sleep(2.5)`.
PutStart ==
    /\ \E job_id \in JobIds :
          /\ job_pc[job_id] = "sent"
          /\ running' = put_start(manager, job_id).running
          /\ job_pc' = [job_pc EXCEPT ![job_id] = "sleeping"]
    /\ UNCHANGED <<helperVars, syncerVars, expandVars, mergeVars, treeVars,
                   factoryVars, versionVars, dtVars, regexVars, inkeyVars,
                   deltaVars, transformVars, jsonVars,
                   results, job_message, reply>>

\* The sleep is over: put runs to its end.
PutFinish ==
    /\ \E job_id \in JobIds :
          /\ job_pc[job_id] = "sleeping"
          /\ LET after == put_finish(manager, job_id, job_message[job_id])
             IN  /\ running' = after.running
                 /\ results' = after.results
          /\ job_pc' = [job_pc EXCEPT ![job_id] = "done"]
    /\ UNCHANGED <<helperVars, syncerVars, expandVars, mergeVars, treeVars,
                   factoryVars, versionVars, dtVars, regexVars, inkeyVars,
                   deltaVars, transformVars, jsonVars, job_message, reply>>

\* GET /tasks/{job_id}, for any job id.
GetTask ==
    /\ \E job_id \in JobIds :
          LET answer == get_task(manager, job_id)
          IN  reply' = Reply("get_task", job_id, answer.code, answer.body,
                             job_pc[job_id], <<>>)
    /\ UNCHANGED <<helperVars, syncerVars, expandVars, mergeVars, treeVars,
                   factoryVars, versionVars, dtVars, regexVars, inkeyVars,
                   deltaVars, transformVars, jsonVars,
                   running, results, job_pc, job_message>>

\* GET /tasks
ListFinishedTasks ==
    /\ reply' = Reply("list_finished_tasks", 0, 200, "", "", all_done(manager))
    /\ UNCHANGED <<helperVars, syncerVars, expandVars, mergeVars, treeVars,
                   factoryVars, versionVars, dtVars, regexVars, inkeyVars,
                   deltaVars, transformVars, jsonVars,
                   running, results, job_pc, job_message>>

JobsNext ==
    \/ CreateTaskEmpty
    \/ CreateTask
    \/ SendResponse
    \/ PutStart
    \/ PutFinish
    \/ GetTask
    \/ ListFinishedTasks

SpecJobs == JobsInit /\ [][JobsNext]_vars

---------------------------------------------------------------------------
(* Claims about the job routes and JobManager (checked under SpecJobs).    *)

\* C29: a job created through POST /tasks is never reported as unknown:
\* once create_task has returned a job id, manager.has(job_id) holds in
\* every state, and every get_task(job_id) answers 202 or the result,
\* never 404.
C29_CreatedJobNeverUnknown ==
    /\ \A job_id \in JobIds :
          job_pc[job_id] # "" =>
              (job_id \in running \/ job_id \in DOMAIN results)
    /\ (reply.route = "get_task" /\ reply.pc # "") => reply.code \in {202, 200}

\* The status of a job that has() and is_ready() show.
Visible(rn, rs, job_id) ==
    IF job_id \in DOMAIN rs THEN "ready"
    ELSE IF job_id \in rn THEN "running"
    ELSE "unknown"

Rank(st) == CASE st = "unknown" -> 0 [] st = "running" -> 1 [] st = "ready" -> 2

\* C30: in every reachable state no job id is in _running and in _results
\* at once, a job whose put() has started is visible through has(), and a
\* ready job holds the message given to put(); and in every step the
\* visible status of a job moves forward or stays (unknown -> running ->
\* ready), a ready job staying ready with the same result.
C30_StatusMovesForward ==
    /\ [](\A job_id \in JobIds :
            /\ ~(job_id \in running /\ job_id \in DOMAIN results)
            /\ job_pc[job_id] \in {"sleeping", "done"} =>
                   Visible(running, results, job_id) # "unknown"
            /\ job_id \in DOMAIN results =>
                   /\ results[job_id] = job_message[job_id]
                   /\ job_pc[job_id] = "done")
    /\ [][\A job_id \in JobIds :
            /\ Rank(Visible(running', results', job_id))
                   >= Rank(Visible(running, results, job_id))
            /\ job_id \in DOMAIN results =>
                   /\ job_id \in DOMAIN results'
                   /\ results'[job_id] = results[job_id]]_vars

\* C30 witness: one job is ready and get_task has answered with the
\* message given to its put(), while the put() of another job is asleep.
C30_Witness ==
    /\ \E a, b \in JobIds :
          /\ Visible(running, results, a) = "ready"
          /\ Visible(running, results, b) = "running"
          /\ reply = Reply("get_task", a, 200, job_message[a], "done", <<>>)

====
